---- MODULE Spec2Model ----
(***************************************************************************)
(* Synapse: the application state of App.tsx (nodes, links, selection,     *)
(* processing flag, connection mode, the asynchronous agent flows) and the *)
(* interaction layer of GraphCanvas.tsx (connect gesture, d3 drag gesture  *)
(* by mouse and by touch, data-update effect, force-simulation timer, the  *)
(* d3 zoom transform with its view controls).                              *)
(*                                                                         *)
(* Node records are JavaScript objects.  React replaces a record by a new  *)
(* object ({...n, ...}) while d3 keeps writing x/fx into the object it was *)
(* handed.  The only holder of a reference that outlives a replacement is  *)
(* the drag gesture (its datum d is captured at pointer-down), so `nodes`  *)
(* holds the current records by value and the gesture holds either the     *)
(* index of the current record it refers to (live) or the detached object. *)
(*                                                                         *)
(* x/fx stand for the coordinate pairs (x,y)/(fx,fy): every statement of   *)
(* the source that assigns one component assigns the other the same way.   *)
(* Fit-to-view, which needs a box with a width and a height, reads the y   *)
(* coordinates as an input.                                                *)
(***************************************************************************)
EXTENDS Integers, Sequences, FiniteSets, Bags, TLC

\* ---------------------------------------------------------------- bounds
MaxNodes    == 4    \* most node records held at once
MaxFlows    == 2    \* most agent flows in flight at once
MaxClock    == 1    \* Date.now() ranges over 0..MaxClock
MaxTopics   == 1    \* most topics a brainstorm answer carries
MaxResets   == 1    \* most session resets
MaxCoord    == 1    \* canvas coordinates are 0..MaxCoord (units of 100px, wrapped)
MaxContent  == 2    \* most deep-dive analyses appended to one node
MaxLinks    == 2    \* a new pair can be connected while fewer links exist
NarrowSide  == 104  \* a small width or height of the canvas wrapper, px
MaxRow      == 2    \* y coordinates read by fit-to-view are 0..MaxRow
PanStep     == 300  \* px the view moves in one pan gesture
MaxPan      == 300  \* a pan gesture keeps the centre within -MaxPan..MaxPan
MaxAnswer   == 4    \* most topics in a brainstorm answer of the model
MaxTicks    == 100  \* most ticks of the simulation followed in numbers

\* ------------------------------------------------------ program constants
TopicLimit      == 3     \* brainstorm.topics.slice(0, 3)
AlphaOne        == 10    \* simulation.alpha(1), in tenths
AlphaDragTarget == 3     \* simulation.alphaTarget(0.3), in tenths
AlphaMin        == 1     \* d3 alphaMin: the timer stops below it (tenths)

ScaleOne      == 100   \* zoomIdentity ... .scale(1), in hundredths
ScaleMin      == 10    \* scaleExtent([0.1, 4]), in hundredths
ScaleMax      == 400
ZoomInFactor  == 120   \* scaleBy, 1.2
ZoomOutFactor == 80    \* scaleBy, 0.8
FitPadding    == 100   \* const padding = 100 (px)
FitMaxScale   == 150   \* Max scale cap 1.5, in hundredths
DefaultWidth  == 800   \* clientWidth || 800
DefaultHeight == 600   \* clientHeight || 600
CoordPx       == 100   \* px in a coordinate unit
Infinity      == 1000000  \* what a division by 0 gives
WheelOut      == 50    \* a wheel gesture that halves the scale
WheelIn       == 200   \* a wheel gesture that doubles the scale

NCoord    == MaxCoord + 1
Coord     == 0 .. MaxCoord
Wrap(v)   == v % NCoord
NullCoord == -1          \* fx = null
NoId      == <<>>        \* sourceNode = null

\* ids: 'user-input', 'gatekeeper-1', `expert-${t}`, `concept-${t}-${count}`,
\* `roadmap-${t}`, as <<prefix, t, count>>
userId             == <<"user-input", 0, 0>>
gatekeeperId       == <<"gatekeeper-1", 0, 0>>
expertId(t)        == <<"expert", t, 0>>
conceptId(t, cnt)  == <<"concept", t, cnt>>
roadmapId(t)       == <<"roadmap", t, 0>>

NoSelection == [open |-> FALSE]
NoTopics    == -1        \* the parsed answer has no topics array
\* an agent call that has not settled
Pending     == [answer |-> [err |-> FALSE, text |-> "", topics |-> NoTopics, inline |-> FALSE],
                promise |-> [state |-> "pending", text |-> "", topics |-> NoTopics,
                             image |-> FALSE]]
\* a status line: the text of the template and the value of ${count}
Status(text, count) == [text |-> text, count |-> count]
NoObj       == [x |-> 0, fx |-> NullCoord]
NoGesture   == [active |-> FALSE, idx |-> 0, key |-> 0, moved |-> FALSE,
                live |-> FALSE, obj |-> NoObj, touch |-> FALSE, bound |-> TRUE]

VARIABLES
  nodes,           \* App: useState<NodeData[]>, the current records in order
  links,           \* App: useState<LinkData[]>, a bag of <<source, target>> id
                   \* pairs (no code reads the order of the array)
  selectedNode,    \* App: the NodeCard's copy of a node, or NoSelection
  isProcessing,    \* App: processing flag
  connectionMode,  \* App: connect mode on/off
  resetKey,        \* App: key of GraphCanvas; a change remounts the canvas
  sourceNode,      \* GraphCanvas: pending connection source id, or NoId
  gesture,         \* d3.drag gesture in progress (pointer held on a node)
  alpha,           \* simulation temperature, tenths
  alphaTarget,     \* simulation target temperature, tenths
  running,         \* simulation timer active
  crashed,         \* the data-update effect threw: React unmounted the tree
  flows,           \* bag of the agent flows suspended at an await, each with
                   \* the values its closure captured
  now,             \* last value returned by Date.now()
  emitted,         \* the calls the canvas's click handlers made in the last step
  view,            \* d3.zoom transform of the svg: the scale k in hundredths
                   \* and, for the translation, twice the graph point
                   \* (cx2, cy2) that lies under the viewport's centre, px
  viewport,        \* <<clientWidth, clientHeight>> of the canvas wrapper, px
  statusMessage,   \* App: the status line, a message template and the
                   \* count it shows
  elements,        \* GraphCanvas: the foreignObject elements of the .nodes
                   \* group in document order, each with the key of its
                   \* datum
  layout           \* the simulation in numbers, for a graph of up to two
                   \* nodes A and B with the link (A, B): positions and
                   \* velocities in hundredths of a px, alpha in
                   \* ten-thousandths (the node records keep the coarse x)

vars == <<nodes, links, selectedNode, isProcessing, connectionMode, resetKey,
          sourceNode, gesture, alpha, alphaTarget, running, crashed, flows,
          now, emitted, view, viewport, statusMessage, elements, layout>>

\* ---------------------------------------------------------------- helpers
Min(a, b)    == IF a < b THEN a ELSE b
Ids(ns)      == {ns[i].id : i \in DOMAIN ns}
One(e)       == SetToBag({e})

RECURSIVE SumCopies(_, _)
SumCopies(B, S) ==
  IF S = {} THEN 0
  ELSE LET e == CHOOSE e \in S : TRUE IN CopiesIn(e, B) + SumCopies(B, S \ {e})

\* the bag of F(e) for the elements e of bag B
BagMap(F(_), B) ==
  LET img == {F(e) : e \in BagToSet(B)}
  IN [y \in img |-> SumCopies(B, {e \in BagToSet(B) : F(e) = y})]

\* nodes.find(n => n.id === id): index of the first match, 0 for undefined
FindId(ns, id) ==
  IF \E i \in DOMAIN ns : ns[i].id = id
  THEN CHOOSE i \in DOMAIN ns : ns[i].id = id /\ \A j \in 1 .. i - 1 : ns[j].id # id
  ELSE 0

\* nodes.find(n => n.type === type): index of the first match, 0 for undefined
FindType(ns, type) ==
  IF \E i \in DOMAIN ns : ns[i].type = type
  THEN CHOOSE i \in DOMAIN ns : ns[i].type = type /\ \A j \in 1 .. i - 1 : ns[j].type # type
  ELSE 0

NewNode(id, type, x) ==
  [id |-> id, type |-> type, selectedForRoadmap |-> FALSE, isDeepDived |-> FALSE,
   content |-> 0, image |-> FALSE, x |-> x, vx |-> 0, fx |-> NullCoord]

\* what the NodeCard shows of a record
CardOf(n) ==
  [open |-> TRUE, id |-> n.id, type |-> n.type,
   selectedForRoadmap |-> n.selectedForRoadmap, isDeepDived |-> n.isDeepDived,
   content |-> n.content]

hasGatekeeper == \E i \in DOMAIN nodes : nodes[i].type = "GATEKEEPER"
hasExperts    == \E i \in DOMAIN nodes : nodes[i].type = "EXPERT"

\* ------------------------------------------------------------ App helpers
addNode(prev, node) == Append(prev, node)

\* addLink without the `exists` test
addLink_unchecked(prev, source, target) ==
  prev (+) SetToBag({<<source, target>>})

addLink(prev, source, target) ==
  IF \E l \in BagToSet(prev) : l[1] = source /\ l[2] = target
  THEN prev
  ELSE prev (+) SetToBag({<<source, target>>})

\* ------------------------------------------------ GraphCanvas: view transform
Max(a, b) == IF a > b THEN a ELSE b

\* zoomIdentity.translate(width/2, height/2).scale(1), on mount: the graph's
\* origin lies under the centre of the viewport
initialTransform == [k |-> ScaleOne, cx2 |-> 0, cy2 |-> 0]

\* the translation of transform t in a viewport vp, px:
\* x = width/2 - k * cx, y = height/2 - k * cy
translateX(t, vp) == vp[1] \div 2 - (t.k * t.cx2) \div 200
translateY(t, vp) == vp[2] \div 2 - (t.k * t.cy2) \div 200

\* d3-zoom keeps a scale it computes inside scaleExtent
Clamp(k) == Max(ScaleMin, Min(ScaleMax, k))

\* scaleBy without scaleExtent
scaleBy_unclamped(t, f) == [t EXCEPT !.k = (t.k * f) \div 100]

\* d3-zoom scaleBy(factor): the scale times the factor, clamped to
\* scaleExtent, with the graph point under the viewport's centre kept there
scaleBy(t, f) == [t EXCEPT !.k = Clamp((t.k * f) \div 100)]

\* ------------------------------------------------- GraphCanvas: data update
\* displayLinks: fresh {source, target} id pairs made from links
displayLinks(ls) == {<<l[1], l[2]>> : l \in BagToSet(ls)}

\* simulation.nodes(nodes): d3 initializeNodes moves a pinned node onto fx
initializeNodes(ns) ==
  [i \in DOMAIN ns |-> IF ns[i].fx # NullCoord THEN [ns[i] EXCEPT !.x = ns[i].fx] ELSE ns[i]]

\* linkForce.links(displayLinks): d3 resolves each endpoint id through the
\* id -> node map and throws "node not found" for an id no node has
LinkResolves(ns, l) == l[1] \in Ids(ns) /\ l[2] \in Ids(ns)
LinksResolve(ns, ls) == \A l \in displayLinks(ls) : LinkResolves(ns, l)

\* The data-update effect, run after a render in which nodes or links is a
\* new array (fresh); ns, ls are the new state values.  When links() throws,
\* alpha(1).restart() is not reached and React unmounts the tree, whose
\* cleanup stops the simulation.
DataUpdate(ns, ls, fresh) ==
  /\ links' = ls
  /\ IF ~fresh
     THEN nodes' = ns /\ UNCHANGED <<alpha, running, crashed>>
     ELSE /\ nodes' = initializeNodes(ns)
          /\ IF LinksResolve(ns, ls)
             THEN alpha' = AlphaOne /\ running' = TRUE /\ UNCHANGED crashed
             ELSE crashed' = TRUE /\ running' = FALSE /\ UNCHANGED alpha

\* The gesture's datum stops being the current record when React replaces the
\* records at the indices in `replaced`.
Detach(g, replaced) ==
  IF g.active /\ g.live /\ g.idx \in replaced
  THEN [g EXCEPT !.live = FALSE,
                 !.obj = [x |-> nodes[g.idx].x, fx |-> nodes[g.idx].fx]]
  ELSE g

\* The render effect runs again after every render of App (onConnect is a new
\* function each time): it rewrites the content of every node element and
\* binds a new d3.drag() to the elements.  A mouse gesture goes on through the
\* listeners its behaviour put on the window; a touch gesture is known only to
\* the behaviour that was bound when it started, whose touchmove and touchend
\* listeners are replaced.
Rebind(g) ==
  IF g.active /\ g.touch THEN [g EXCEPT !.bound = FALSE] ELSE g

\* ------------------------------------------- GraphCanvas: forceSimulation
\* d3 computes in doubles; here a length is a whole number of hundredths of a
\* px and alpha a whole number of ten-thousandths, and every quotient is
\* rounded down.
PxScale        == 100
AlphaScale     == 10000
LinkDistance   == 180     \* d3.forceLink(...).distance(180), px
ChargeStrength == 500     \* d3.forceManyBody().strength(-500): repulsion
CollideRadius  == 70      \* d3.forceCollide().radius(70), px
AxisStrength   == 5       \* d3.forceX(0).strength(0.05), forceY alike: hundredths
AlphaDecay     == 2276    \* d3 default 1 - 0.001^(1/300) = 0.02276, in 1/100000
VelocityKeep   == 6       \* d3 default velocityDecay 0.4: v *= 0.6, in tenths
ChargeScale    == 400     \* precision of the quotient strength * alpha / l

Body(x, y) == [x |-> x * PxScale, y |-> y * PxScale, vx |-> 0, vy |-> 0]
NoLayout   == [n |-> 0, ticks |-> 0, alpha |-> AlphaScale, nan |-> FALSE,
               a |-> Body(0, 0), b |-> Body(0, 0), b0 |-> <<0, 0>>]

\* Math.sqrt, rounded down
RECURSIVE Root(_, _, _)
Root(n, lo, hi) ==
  IF lo = hi THEN lo
  ELSE LET mid == (lo + hi + 1) \div 2
       IN IF mid * mid <= n THEN Root(n, mid, hi) ELSE Root(n, lo, mid - 1)
Sqrt(n) == Root(n, 0, 46340)

Distance(l) == Sqrt((l.b.x - l.a.x) * (l.b.x - l.a.x) + (l.b.y - l.a.y) * (l.b.y - l.a.y))

\* d3 forceLink, one link with source A and target B, strength 1, bias 1/2:
\* x = target.x + target.vx - source.x - source.vx (y alike),
\* l = (sqrt(x^2 + y^2) - distance) / sqrt(x^2 + y^2) * alpha * strength,
\* target.v -= (x, y) * l * bias, source.v += (x, y) * l * (1 - bias).
\* d3 replaces a coordinate difference of 0 by a tiny random one; without it
\* the quotient by a length of 0 is NaN.
forceLink_off(l) == l
forceLink(l) ==
  LET x  == l.b.x + l.b.vx - l.a.x - l.a.vx
      y  == l.b.y + l.b.vy - l.a.y - l.a.vy
      ln == Sqrt(x * x + y * y)
  IN IF ln = 0 THEN [l EXCEPT !.nan = TRUE]
     ELSE LET k  == ((ln - LinkDistance * PxScale) * l.alpha) \div ln
              hx == (x * k) \div (2 * AlphaScale)
              hy == (y * k) \div (2 * AlphaScale)
          IN [l EXCEPT !.b.vx = @ - hx, !.b.vy = @ - hy,
                       !.a.vx = @ + hx, !.a.vy = @ + hy]

\* d3 forceManyBody for two nodes: each node gets
\* v += (other - node) * strength * alpha / |other - node|^2.
forceManyBody(l) ==
  LET dx == l.b.x - l.a.x
      dy == l.b.y - l.a.y
      d2 == (dx * dx + dy * dy) \div PxScale
  IN IF d2 = 0 THEN [l EXCEPT !.nan = TRUE]
     ELSE LET w  == (ChargeStrength * l.alpha * ChargeScale) \div d2
              px == (dx * w) \div (ChargeScale * PxScale)
              py == (dy * w) \div (ChargeScale * PxScale)
          IN [l EXCEPT !.a.vx = @ - px, !.a.vy = @ - py,
                       !.b.vx = @ + px, !.b.vy = @ + py]

\* d3 forceCollide, strength 1, equal radii: when the positions the nodes are
\* about to take (x + vx) are closer than the two radii,
\* l = (r - sqrt(x^2 + y^2)) / sqrt(x^2 + y^2), node.v += (x, y) * l / 2 and
\* the other node's v -= (x, y) * l / 2.
forceCollide(l) ==
  LET x  == l.a.x + l.a.vx - l.b.x - l.b.vx
      y  == l.a.y + l.a.vy - l.b.y - l.b.vy
      r  == 2 * CollideRadius * PxScale
      ln == Sqrt(x * x + y * y)
  IN IF x * x + y * y >= r * r THEN l
     ELSE IF ln = 0 THEN [l EXCEPT !.nan = TRUE]
     ELSE LET k  == ((r - ln) * AlphaScale) \div ln
              hx == (x * k) \div (2 * AlphaScale)
              hy == (y * k) \div (2 * AlphaScale)
          IN [l EXCEPT !.a.vx = @ + hx, !.a.vy = @ + hy,
                       !.b.vx = @ - hx, !.b.vy = @ - hy]

\* d3 forceX(0) and forceY(0): v += (0 - position) * strength * alpha
Pull(c, al) == (c * AxisStrength * al) \div (100 * AlphaScale)
forceAxes(l) ==
  [l EXCEPT !.a.vx = @ - Pull(l.a.x, l.alpha), !.a.vy = @ - Pull(l.a.y, l.alpha),
            !.b.vx = @ - Pull(l.b.x, l.alpha), !.b.vy = @ - Pull(l.b.y, l.alpha)]

\* simulation.tick, last loop: node.x += node.vx *= velocityDecay
Move(p) ==
  LET vx == (p.vx * VelocityKeep) \div 10
      vy == (p.vy * VelocityKeep) \div 10
  IN [x |-> p.x + vx, y |-> p.y + vy, vx |-> vx, vy |-> vy]

\* simulation.tick: alpha += (alphaTarget - alpha) * alphaDecay, then the
\* forces in the order they were registered (link, charge, collide, x, y),
\* then the positions.  With one node only the axis forces act on it.
Forces(l) ==
  IF l.n = 2 THEN forceAxes(forceCollide(forceManyBody(forceLink(l))))
  ELSE forceAxes(l)
Step(l) ==
  LET cooled == [l EXCEPT !.alpha = @ - (@ * AlphaDecay) \div 100000]
      pushed == Forces(cooled)
  IN [pushed EXCEPT !.a = Move(@), !.b = IF l.n = 2 THEN Move(@) ELSE @,
                    !.ticks = @ + 1]

\* ------------------------------------------------ GraphCanvas: node elements
\* A foreignObject element: the key of the datum bound to it, and a number
\* that tells it from the other elements made for the same key.
Element(key, gen) == [key |-> key, gen |-> gen]

\* d3 bindKey, first loop: nodeByKeyValue holds for each key value the first
\* element of the group that has it (0: none); a later element with the same
\* key value goes to the exit selection.
nodeByKeyValue(group, k) ==
  IF \E i \in DOMAIN group : group[i].key = k
  THEN CHOOSE i \in DOMAIN group :
         group[i].key = k /\ \A l \in 1 .. i - 1 : group[l].key # k
  ELSE 0

\* the n-th smallest number that is not in `used`
RECURSIVE Unused(_, _)
Unused(used, n) ==
  LET m == CHOOSE c \in 0 .. Cardinality(used) :
             c \notin used /\ \A l \in 0 .. c - 1 : l \in used
  IN IF n = 1 THEN m ELSE Unused(used \cup {m}, n - 1)

\* nodeGroup.selectAll("foreignObject").data(nodes, d => d.id), exit().remove(),
\* enter().append("foreignObject") and merge: the elements after the join, in
\* the order of the data.  d3 bindKey, second loop: a datum takes the element
\* nodeByKeyValue holds for its key and deletes the entry, so that a later
\* datum with the same key finds none and enters; an entering datum gets a
\* new element, inserted before the element of the next updating datum.
\* Every element not taken is in the exit selection and is removed.
\* When the group has one element for every datum, with the datum's key, and
\* no key twice, every datum takes its own element: the update selection is
\* the whole group, nothing enters and nothing exits.
bindKey(group, data) ==
  IF /\ Len(group) = Len(data)
     /\ \A j \in DOMAIN data :
          /\ group[j].key = data[j].id
          /\ \A i \in 1 .. j - 1 : group[i].key # group[j].key
  THEN group
  ELSE [j \in DOMAIN data |->
          LET k       == data[j].id
              e       == nodeByKeyValue(group, k)
              earlier == Cardinality({i \in 1 .. j - 1 : data[i].id = k})
              used    == {group[i].gen : i \in {i \in DOMAIN group : group[i].key = k}}
          IN IF e # 0 /\ earlier = 0
             THEN group[e]
             ELSE Element(k, Unused(used, earlier + (IF e = 0 THEN 1 ELSE 0)))]

\* No state value React renders from changed in the step: App's useState
\* values and GraphCanvas's sourceNode.  The simulation and the drag
\* behaviour write x, vx and fx into the node objects without telling React.
SameState ==
  /\ statusMessage' = statusMessage /\ isProcessing' = isProcessing
  /\ selectedNode' = selectedNode /\ connectionMode' = connectionMode
  /\ sourceNode' = sourceNode /\ resetKey' = resetKey /\ links' = links
  /\ Len(nodes') = Len(nodes)
  /\ \A i \in DOMAIN nodes :
       [nodes'[i] EXCEPT !.x = 0, !.vx = 0, !.fx = NullCoord]
         = [nodes[i] EXCEPT !.x = 0, !.vx = 0, !.fx = NullCoord]

\* The render effect's join.  The effect depends on onConnect, a new function
\* in every render of App, so it runs after every render; React renders when
\* a state value changed.  After an error thrown by the data-update effect,
\* which runs first, React has unmounted the tree and no element is left.
render ==
  elements' = IF crashed' THEN <<>>
              ELSE IF SameState THEN elements
              ELSE bindKey(elements, nodes')

Init ==
  /\ nodes = <<>>
  /\ links = EmptyBag
  /\ selectedNode = NoSelection
  /\ isProcessing = FALSE
  /\ connectionMode = FALSE
  /\ resetKey = 0
  /\ sourceNode = NoId
  /\ gesture = NoGesture
  /\ alpha = AlphaOne
  /\ alphaTarget = 0
  /\ running = TRUE
  /\ crashed = FALSE
  /\ flows = EmptyBag
  /\ now = 0
  /\ emitted = <<>>
  /\ viewport = <<DefaultWidth, DefaultHeight>>
  /\ view = initialTransform
  /\ statusMessage = Status("", 0)
  /\ elements = <<>>
  /\ layout = NoLayout

\* ------------------------------------------------------------------ flows
\* A flow is an async handler suspended at an await; its fields are the
\* values its closure captured.
Flow(kind, pc) ==
  [kind |-> kind, pc |-> pc, gk |-> NoId, exIdx |-> 0, key |-> resetKey,
   exX |-> 0, left |-> 0, count |-> 0, sel |-> <<>>, node |-> NoId,
   cardId |-> NoId, res |-> Pending]

\* ------------------------------------------------------- geminiService.ts
\* What `await ai.models.generateContent(...)` can give: a rejection (err),
\* or a response whose text is empty, is prose that JSON.parse refuses, or is
\* JSON; `topics` is the length of the "topics" array of that JSON (NoTopics
\* when the object has no such array) and `inline` says whether a part of the
\* first candidate carries inlineData.
Answer(err, text, topics, inline) ==
  [err |-> err, text |-> text, topics |-> topics, inline |-> inline]

\* the promise an agent call returns, once settled
Fulfilled(text, topics, image) ==
  [state |-> "fulfilled", text |-> text, topics |-> topics, image |-> image]
Rejected == [state |-> "rejected", text |-> "", topics |-> NoTopics, image |-> FALSE]

gatekeeperTranslate(userInput, r) ==
  IF ~userInput THEN Fulfilled("No input provided.", NoTopics, FALSE)
  ELSE IF r.err THEN Rejected
  ELSE IF r.text = "" THEN Fulfilled("Could not extract principle.", NoTopics, FALSE)
  ELSE Fulfilled(r.text, NoTopics, FALSE)

\* getExpertBrainstorm whose catch block returns an empty topic list
getExpertBrainstorm_noTopic(r) ==
  IF r.err \/ r.text = "" \/ r.text = "prose"
  THEN Fulfilled("Analysis Failed", 0, FALSE)
  ELSE Fulfilled(r.text, r.topics, FALSE)

\* getExpertBrainstorm whose catch block rethrows
getExpertBrainstorm_rethrows(r) ==
  IF r.err \/ r.text = "" \/ r.text = "prose"
  THEN Rejected
  ELSE Fulfilled(r.text, r.topics, FALSE)

\* catch: one topic, "Analysis Failed", in place of the answer
getExpertBrainstorm(r) ==
  IF r.err \/ r.text = "" \/ r.text = "prose"
  THEN Fulfilled("Analysis Failed", 1, FALSE)
  ELSE Fulfilled(r.text, r.topics, FALSE)

generateTopicContent(r) ==
  IF r.err \/ r.text = "" \/ r.text = "prose" THEN Rejected
  ELSE Fulfilled(r.text, NoTopics, FALSE)

\* generateConceptImage whose catch block rethrows
generateConceptImage_rethrows(r) ==
  IF r.err THEN Rejected
  ELSE Fulfilled("", NoTopics, r.inline)

\* the first inlineData part as a data URL, undefined without one or on error
generateConceptImage(r) ==
  IF r.err THEN Fulfilled("", NoTopics, FALSE)
  ELSE Fulfilled("", NoTopics, r.inline)

synthesizeRoadmap(r) ==
  IF r.err THEN Rejected
  ELSE IF r.text = "" THEN Fulfilled("Could not synthesize roadmap.", NoTopics, FALSE)
  ELSE Fulfilled(r.text, NoTopics, FALSE)

generateDeepConnection(r) ==
  IF r.err THEN Fulfilled("Error generating analysis.", NoTopics, FALSE)
  ELSE IF r.text = "" THEN Fulfilled("Could not generate deep dive analysis.", NoTopics, FALSE)
  ELSE Fulfilled(r.text, NoTopics, FALSE)

\* the agent call a flow is suspended at, applied to the model's answer
AgentCall(pc, r) ==
  CASE pc = "gatekeeperTranslate"    -> gatekeeperTranslate(TRUE, r)
    [] pc = "getExpertBrainstorm"    -> getExpertBrainstorm(r)
    [] pc = "generateTopicContent"   -> generateTopicContent(r)
    [] pc = "generateConceptImage"   -> generateConceptImage(r)
    [] pc = "synthesizeRoadmap"      -> synthesizeRoadmap(r)
    [] pc = "generateDeepConnection" -> generateDeepConnection(r)

\* The model call inside the agent call that flow f awaits settles with
\* answer r, and the agent call runs to its return or throw.  The flow itself
\* resumes in a later step.
generateContent(f, r) ==
  /\ ~crashed /\ BagIn(f, flows) /\ f.res = Pending
  /\ flows' = (flows (-) One(f)) (+)
               One([f EXCEPT !.res = [answer |-> r, promise |-> AgentCall(f.pc, r)]])
  /\ emitted' = <<>>
  /\ UNCHANGED <<nodes, links, selectedNode, isProcessing, connectionMode, resetKey,
                 sourceNode, gesture, alpha, alphaTarget, running, crashed, now>>
  /\ UNCHANGED <<view, viewport>>
  /\ UNCHANGED statusMessage
  /\ render
  /\ UNCHANGED layout

\* ---------------------------------------------------- App.tsx: handleStart
\* handleStart that also puts the view back to the initial transform
handleStart_recentres ==
  /\ ~crashed /\ ~hasGatekeeper /\ ~isProcessing
  /\ Len(nodes) < MaxNodes /\ BagCardinality(flows) < MaxFlows
  /\ isProcessing' = TRUE
  /\ DataUpdate(addNode(nodes, NewNode(userId, "USER_INPUT", Wrap(-1))), links, TRUE)
  /\ flows' = flows (+) One(Flow("start", "gatekeeperTranslate"))
  /\ emitted' = <<>>
  /\ UNCHANGED <<selectedNode, connectionMode, resetKey, sourceNode, gesture,
                 alphaTarget, now>>
  /\ view' = initialTransform
  /\ UNCHANGED viewport
  /\ statusMessage' = Status("Gatekeeper is distilling core principle...", 0)
  /\ render
  /\ UNCHANGED layout

\* Sidebar phase 1: the section is inert once a Gatekeeper exists and the
\* submit button is disabled while isProcessing.
handleStart ==
  /\ ~crashed /\ ~hasGatekeeper /\ ~isProcessing
  /\ Len(nodes) < MaxNodes /\ BagCardinality(flows) < MaxFlows
  /\ isProcessing' = TRUE
  /\ DataUpdate(addNode(nodes, NewNode(userId, "USER_INPUT", Wrap(-1))), links, TRUE)
  /\ flows' = flows (+) One(Flow("start", "gatekeeperTranslate"))
  /\ emitted' = <<>>
  /\ UNCHANGED <<selectedNode, connectionMode, resetKey, sourceNode, gesture,
                 alphaTarget, now>>
  /\ UNCHANGED <<view, viewport>>
  /\ statusMessage' = Status("Gatekeeper is distilling core principle...", 0)
  /\ render
  /\ UNCHANGED layout

\* gatekeeperTranslateSettled without the finally block
gatekeeperTranslateSettled_noFinally(f, ok) ==
  /\ ~crashed /\ BagIn(f, flows) /\ f.kind = "start"
  /\ IF ok
     THEN /\ Len(nodes) < MaxNodes
          /\ DataUpdate(addNode(nodes, NewNode(gatekeeperId, "GATEKEEPER", Wrap(1))),
                        addLink(links, userId, gatekeeperId), TRUE)
          /\ emitted' = <<>>
     ELSE /\ DataUpdate(nodes, links, FALSE)
          /\ emitted' = <<>>
  /\ isProcessing' = IF ok THEN FALSE ELSE isProcessing
  /\ flows' = flows (-) One(f)
  /\ UNCHANGED <<selectedNode, connectionMode, resetKey, sourceNode, gesture,
                 alphaTarget, now>>
  /\ UNCHANGED <<view, viewport>>
  /\ statusMessage' = IF ok THEN Status("Principle extracted. Ready for experts.", 0)
                      ELSE Status("Error processing input.", 0)
  /\ render
  /\ UNCHANGED layout

\* handleStart after `await gatekeeperTranslate(...)`: try body, catch, finally
gatekeeperTranslateSettled(f, ok) ==
  /\ ~crashed /\ BagIn(f, flows) /\ f.kind = "start"
  /\ IF ok
     THEN /\ Len(nodes) < MaxNodes
          /\ DataUpdate(addNode(nodes, NewNode(gatekeeperId, "GATEKEEPER", Wrap(1))),
                        addLink(links, userId, gatekeeperId), TRUE)
          /\ emitted' = <<>>
     ELSE /\ DataUpdate(nodes, links, FALSE)
          /\ emitted' = <<>>
  /\ isProcessing' = FALSE
  /\ flows' = flows (-) One(f)
  /\ UNCHANGED <<selectedNode, connectionMode, resetKey, sourceNode, gesture,
                 alphaTarget, now>>
  /\ UNCHANGED <<view, viewport>>
  /\ statusMessage' = IF ok THEN Status("Principle extracted. Ready for experts.", 0)
                      ELSE Status("Error processing input.", 0)
  /\ render
  /\ UNCHANGED layout

\* ------------------------------------------------ App.tsx: handleAddExpert
\* t is Date.now(); the spawn offset (Math.random() - 0.5) * 100 is less than
\* half a coordinate unit
handleAddExpert(t) ==
  /\ ~crashed /\ hasGatekeeper /\ ~isProcessing
  /\ Len(nodes) < MaxNodes
  /\ now' = t
  /\ DataUpdate(addNode(nodes, NewNode(expertId(t), "EXPERT", Wrap(0))), links, TRUE)
  /\ connectionMode' = TRUE
  /\ emitted' = <<>>
  /\ UNCHANGED <<selectedNode, isProcessing, resetKey, sourceNode, gesture,
                 alphaTarget, flows>>
  /\ UNCHANGED <<view, viewport>>
  /\ statusMessage' = Status("spawned. Link to Gatekeeper to brainstorm.", 0)
  /\ render
  /\ UNCHANGED layout

\* -------------------------------------------------- App.tsx: handleConnect
\* handleConnect that starts the flow only for a Gatekeeper source
handleConnect_oneWay(ns, sourceId, targetId) ==
  LET s  == FindId(ns, sourceId)
      t  == FindId(ns, targetId)
      gkFirst == s # 0 /\ t # 0 /\ ns[s].type = "GATEKEEPER" /\ ns[t].type = "EXPERT"
      ls == addLink(links, sourceId, targetId)
  IN /\ connectionMode' = FALSE
     /\ DataUpdate(ns, ls, ls # links)
     /\ IF gkFirst
        THEN /\ BagCardinality(flows) < MaxFlows
             /\ isProcessing' = TRUE
             /\ statusMessage' = Status("is searching for connections...", 0)
             /\ flows' = flows (+) One([Flow("connect", "getExpertBrainstorm") EXCEPT
                     !.gk = ns[s].id, !.exIdx = t])
        ELSE UNCHANGED <<isProcessing, flows, statusMessage>>

\* The synchronous part of handleConnect, up to the first await.  ns is the
\* nodes array of the render whose click handler called it.
handleConnect(ns, sourceId, targetId) ==
  LET s  == FindId(ns, sourceId)
      t  == FindId(ns, targetId)
      gkFirst == s # 0 /\ t # 0 /\ ns[s].type = "GATEKEEPER" /\ ns[t].type = "EXPERT"
      exFirst == s # 0 /\ t # 0 /\ ns[t].type = "GATEKEEPER" /\ ns[s].type = "EXPERT"
      gkIdx == IF gkFirst THEN s ELSE t
      exIdx == IF gkFirst THEN t ELSE s
      ls == addLink(links, sourceId, targetId)
  IN /\ connectionMode' = FALSE
     /\ DataUpdate(ns, ls, ls # links)
     /\ IF gkFirst \/ exFirst
        THEN /\ BagCardinality(flows) < MaxFlows
             /\ isProcessing' = TRUE
             /\ statusMessage' = Status("is searching for connections...", 0)
             /\ flows' = flows (+) One([Flow("connect", "getExpertBrainstorm") EXCEPT
                     !.gk = ns[gkIdx].id, !.exIdx = exIdx])
        ELSE UNCHANGED <<isProcessing, flows, statusMessage>>

\* expert.x as the flow reads it: the expert object is never replaced, and
\* after a reset it keeps the coordinate it had when the canvas was torn down
ExpertX(f) == IF f.key = resetKey THEN nodes[f.exIdx].x ELSE f.exX

\* getExpertBrainstormSettled without slice(0, 3)
getExpertBrainstormSettled_noSlice(f, n, malformed) ==
  /\ ~crashed /\ BagIn(f, flows)
  /\ f.kind = "connect" /\ f.pc = "getExpertBrainstorm"
  /\ LET k == n
     IN IF malformed \/ k = 0
        THEN /\ isProcessing' = FALSE
             /\ flows' = flows (-) One(f)
        ELSE /\ flows' = (flows (-) One(f)) (+)
                  One([f EXCEPT !.pc = "generateTopicContent", !.left = k,
                                !.count = 1, !.exX = ExpertX(f), !.res = Pending])
             /\ UNCHANGED isProcessing
  /\ emitted' = <<>>
  /\ UNCHANGED <<nodes, links, selectedNode, connectionMode, resetKey, sourceNode,
                 gesture, alpha, alphaTarget, running, crashed, now>>
  /\ UNCHANGED <<view, viewport>>
  /\ statusMessage' = IF malformed THEN Status("Error during expert analysis.", 0)
                      ELSE IF n = 0 THEN Status("added new perspectives.", 0)
                      ELSE Status("Expanding topic", 1)
  /\ render
  /\ UNCHANGED layout

\* handleConnect after `await getExpertBrainstorm(...)`; n is the length of
\* brainstorm.topics, malformed says the answer has no topics array (the
\* .slice call throws into the catch block)
getExpertBrainstormSettled(f, n, malformed) ==
  /\ ~crashed /\ BagIn(f, flows)
  /\ f.kind = "connect" /\ f.pc = "getExpertBrainstorm"
  /\ LET k == Min(n, TopicLimit)
     IN IF malformed \/ k = 0
        THEN /\ isProcessing' = FALSE
             /\ flows' = flows (-) One(f)
        ELSE /\ flows' = (flows (-) One(f)) (+)
                  One([f EXCEPT !.pc = "generateTopicContent", !.left = k,
                                !.count = 1, !.exX = ExpertX(f), !.res = Pending])
             /\ UNCHANGED isProcessing
  /\ emitted' = <<>>
  /\ UNCHANGED <<nodes, links, selectedNode, connectionMode, resetKey, sourceNode,
                 gesture, alpha, alphaTarget, running, crashed, now>>
  /\ UNCHANGED <<view, viewport>>
  /\ statusMessage' = IF malformed THEN Status("Error during expert analysis.", 0)
                      ELSE IF Min(n, TopicLimit) = 0 THEN Status("added new perspectives.", 0)
                      ELSE Status("Expanding topic", 1)
  /\ render
  /\ UNCHANGED layout

\* generateTopicContentSettled without the finally block
generateTopicContentSettled_noFinally(f, ok) ==
  /\ ~crashed /\ BagIn(f, flows)
  /\ f.kind = "connect" /\ f.pc = "generateTopicContent"
  /\ IF ok
     THEN /\ flows' = (flows (-) One(f)) (+)
                  One([f EXCEPT !.pc = "generateConceptImage", !.res = Pending])
          /\ UNCHANGED isProcessing
     ELSE /\ UNCHANGED isProcessing
          /\ flows' = flows (-) One(f)
  /\ emitted' = <<>>
  /\ UNCHANGED <<nodes, links, selectedNode, connectionMode, resetKey, sourceNode,
                 gesture, alpha, alphaTarget, running, crashed, now>>
  /\ UNCHANGED <<view, viewport>>
  /\ statusMessage' = IF ok THEN statusMessage
                      ELSE Status("Error during expert analysis.", 0)
  /\ render
  /\ UNCHANGED layout

\* handleConnect after `await generateTopicContent(...)`
generateTopicContentSettled(f, ok) ==
  /\ ~crashed /\ BagIn(f, flows)
  /\ f.kind = "connect" /\ f.pc = "generateTopicContent"
  /\ IF ok
     THEN /\ flows' = (flows (-) One(f)) (+)
                  One([f EXCEPT !.pc = "generateConceptImage", !.res = Pending])
          /\ UNCHANGED isProcessing
     ELSE /\ isProcessing' = FALSE
          /\ flows' = flows (-) One(f)
  /\ emitted' = <<>>
  /\ UNCHANGED <<nodes, links, selectedNode, connectionMode, resetKey, sourceNode,
                 gesture, alpha, alphaTarget, running, crashed, now>>
  /\ UNCHANGED <<view, viewport>>
  /\ statusMessage' = IF ok THEN statusMessage
                      ELSE Status("Error during expert analysis.", 0)
  /\ render
  /\ UNCHANGED layout

\* handleConnect after `await generateConceptImage(...)`: the concept node and
\* its link, then the next loop iteration or the end of the try and finally.
\* t is Date.now(); img says whether an image came back.  The second and
\* later concepts of one flow do not count towards MaxNodes.
generateConceptImageSettled(f, t, img) ==
  /\ ~crashed /\ BagIn(f, flows)
  /\ f.kind = "connect" /\ f.pc = "generateConceptImage"
  /\ Len(nodes) < MaxNodes + f.count - 1
  /\ LET id == conceptId(t, f.count)
         n  == [NewNode(id, "CONCEPT", Wrap(f.exX + f.count - 2)) EXCEPT !.image = img]
     IN /\ DataUpdate(addNode(nodes, n), addLink(links, f.gk, id), TRUE)
        /\ emitted' = <<>>
        /\ IF f.left > 1
           THEN /\ flows' = (flows (-) One(f)) (+)
                     One([f EXCEPT !.pc = "generateTopicContent", !.res = Pending,
                                   !.left = f.left - 1, !.count = f.count + 1])
                /\ UNCHANGED isProcessing
           ELSE /\ isProcessing' = FALSE
                /\ flows' = flows (-) One(f)
  /\ now' = t
  /\ UNCHANGED <<selectedNode, connectionMode, resetKey, sourceNode, gesture,
                 alphaTarget>>
  /\ UNCHANGED <<view, viewport>>
  /\ statusMessage' = IF f.left > 1 THEN Status("Expanding topic", f.count + 1)
                      ELSE Status("added new perspectives.", f.count)
  /\ render
  /\ UNCHANGED layout

\* ------------------------------------------- App.tsx: toggleNodeSelection
\* a record rebuilt from its data fields only, layout fields left out
toggled_fresh(n) ==
  [NewNode(n.id, n.type, 0) EXCEPT !.selectedForRoadmap = ~n.selectedForRoadmap,
     !.isDeepDived = n.isDeepDived, !.content = n.content, !.image = n.image]

\* { ...n, selectedForRoadmap: !n.selectedForRoadmap }
toggled(n) == [n EXCEPT !.selectedForRoadmap = ~n.selectedForRoadmap]

\* Called by the NodeCard's selection button (shown when isSelectable) with
\* the id of the card's node.
toggleNodeSelection ==
  /\ ~crashed /\ selectedNode.open
  /\ selectedNode.type \in {"CONCEPT", "GATEKEEPER"}
  /\ LET nodeId   == selectedNode.id
         replaced == {i \in DOMAIN nodes : nodes[i].id = nodeId}
         ns == [i \in DOMAIN nodes |->
                  IF nodes[i].id = nodeId
                  THEN toggled(nodes[i])
                  ELSE nodes[i]]
     IN /\ gesture' = Rebind(Detach(gesture, replaced))
        /\ DataUpdate(ns, links, TRUE)
        /\ selectedNode' = [selectedNode EXCEPT
                              !.selectedForRoadmap = ~selectedNode.selectedForRoadmap]
  /\ emitted' = <<>>
  /\ UNCHANGED <<isProcessing, connectionMode, resetKey, sourceNode, alphaTarget,
                 flows, now>>
  /\ UNCHANGED <<view, viewport>>
  /\ UNCHANGED statusMessage
  /\ render
  /\ UNCHANGED layout

\* ------------------------------------------------- App.tsx: handleDeepDive
DivesInFlight(nodeId) ==
  SumCopies(flows, {f \in BagToSet(flows) : f.kind = "deepdive" /\ f.node = nodeId})

\* Called by the NodeCard's Deep Dive button (shown when canDeepDive, disabled
\* while isProcessing) with the id of the card's node.
handleDeepDive ==
  /\ ~crashed /\ selectedNode.open
  /\ selectedNode.type = "CONCEPT" /\ ~selectedNode.isDeepDived /\ ~isProcessing
  /\ LET nodeId == selectedNode.id
         n == FindId(nodes, nodeId)
         u == FindType(nodes, "USER_INPUT")
     IN IF n = 0 \/ u = 0
        THEN UNCHANGED <<isProcessing, flows>>
        ELSE /\ BagCardinality(flows) < MaxFlows
             /\ nodes[n].content + DivesInFlight(nodeId) < MaxContent
             /\ isProcessing' = TRUE
             /\ flows' = flows (+) One([Flow("deepdive", "generateDeepConnection") EXCEPT
                     !.node = nodeId, !.cardId = selectedNode.id])
  /\ emitted' = <<>>
  /\ UNCHANGED <<nodes, links, selectedNode, connectionMode, resetKey, sourceNode,
                 gesture, alpha, alphaTarget, running, crashed, now>>
  /\ UNCHANGED <<view, viewport>>
  /\ statusMessage' = IF FindId(nodes, selectedNode.id) = 0 \/ FindType(nodes, "USER_INPUT") = 0
                      THEN statusMessage
                      ELSE Status("Analyzing deep connection to your topic...", 0)
  /\ render
  /\ UNCHANGED layout

\* generateDeepConnectionSettled without the setSelectedNode call
generateDeepConnectionSettled_cardKept(f) ==
  /\ ~crashed /\ BagIn(f, flows) /\ f.kind = "deepdive"
  /\ LET replaced == {j \in DOMAIN nodes : nodes[j].id = f.node}
         upd(n)   == [n EXCEPT !.content = n.content + 1, !.isDeepDived = TRUE]
         ns == [j \in DOMAIN nodes |-> IF j \in replaced THEN upd(nodes[j]) ELSE nodes[j]]
     IN /\ gesture' = Rebind(Detach(gesture, replaced))
        /\ DataUpdate(ns, links, TRUE)
        /\ selectedNode' = selectedNode
  /\ isProcessing' = FALSE
  /\ flows' = flows (-) One(f)
  /\ emitted' = <<>>
  /\ UNCHANGED <<connectionMode, resetKey, sourceNode, alphaTarget, now>>
  /\ UNCHANGED <<view, viewport>>
  /\ statusMessage' = Status("Deep analysis complete.", 0)
  /\ render
  /\ UNCHANGED layout

\* handleDeepDive after `await generateDeepConnection(...)` (which never
\* rejects): the setNodes updater, then finally
generateDeepConnectionSettled(f) ==
  /\ ~crashed /\ BagIn(f, flows) /\ f.kind = "deepdive"
  /\ LET replaced == {j \in DOMAIN nodes : nodes[j].id = f.node}
         upd(n)   == [n EXCEPT !.content = n.content + 1, !.isDeepDived = TRUE]
         ns == [j \in DOMAIN nodes |-> IF j \in replaced THEN upd(nodes[j]) ELSE nodes[j]]
         last == CHOOSE j \in replaced : \A k \in replaced : k <= j
     IN /\ gesture' = Rebind(Detach(gesture, replaced))
        /\ DataUpdate(ns, links, TRUE)
        /\ selectedNode' = IF replaced # {} /\ f.cardId = f.node
                           THEN CardOf(upd(nodes[last]))
                           ELSE selectedNode
  /\ isProcessing' = FALSE
  /\ flows' = flows (-) One(f)
  /\ emitted' = <<>>
  /\ UNCHANGED <<connectionMode, resetKey, sourceNode, alphaTarget, now>>
  /\ UNCHANGED <<view, viewport>>
  /\ statusMessage' = Status("Deep analysis complete.", 0)
  /\ render
  /\ UNCHANGED layout

\* ----------------------------------------------- App.tsx: handleSynthesize
SelectedIds(ns) ==
  LET idxs == {i \in DOMAIN ns : ns[i].selectedForRoadmap}
      RECURSIVE Build(_)
      Build(i) == IF i > Len(ns) THEN <<>>
                  ELSE IF i \in idxs THEN <<ns[i].id>> \o Build(i + 1)
                  ELSE Build(i + 1)
  IN Build(1)

\* Sidebar phase 3: the section is inert without an Expert node and the
\* button is disabled while isProcessing.
handleSynthesize ==
  /\ ~crashed /\ hasExperts /\ ~isProcessing
  /\ IF FindType(nodes, "GATEKEEPER") = 0 \/ SelectedIds(nodes) = <<>>
     THEN UNCHANGED <<isProcessing, flows>>
     ELSE /\ BagCardinality(flows) < MaxFlows
          /\ isProcessing' = TRUE
          /\ flows' = flows (+) One([Flow("synth", "synthesizeRoadmap") EXCEPT !.sel = SelectedIds(nodes)])
  /\ emitted' = <<>>
  /\ UNCHANGED <<nodes, links, selectedNode, connectionMode, resetKey, sourceNode,
                 gesture, alpha, alphaTarget, running, crashed, now>>
  /\ UNCHANGED <<view, viewport>>
  /\ statusMessage' =
       IF FindType(nodes, "GATEKEEPER") = 0 THEN Status("No Core Principle found.", 0)
       ELSE IF SelectedIds(nodes) = <<>>
            THEN Status("Please select at least one concept node for the roadmap.", 0)
            ELSE Status("Synthesizing tailored Roadmap...", 0)
  /\ render
  /\ UNCHANGED layout

RECURSIVE AddLinks(_, _, _)
\* selectedNodes.forEach(c => addLink(c.id, roadmapId))
AddLinks(prev, sel, target) ==
  IF sel = <<>> THEN prev
  ELSE AddLinks(addLink(prev, Head(sel), target), Tail(sel), target)

\* synthesizeRoadmapSettled that links the nodes selected now, not the ones
\* selected at the request
synthesizeRoadmapSettled_selectedNow(f, ok, t) ==
  /\ ~crashed /\ BagIn(f, flows) /\ f.kind = "synth"
  /\ IF ok
     THEN /\ Len(nodes) < MaxNodes + (IF f.res = Pending THEN 0 ELSE 1)
          /\ DataUpdate(addNode(nodes, NewNode(roadmapId(t), "ROADMAP", Wrap(0))),
                        AddLinks(links, SelectedIds(nodes), roadmapId(t)), TRUE)
          /\ emitted' = <<>>
          /\ now' = t
     ELSE /\ DataUpdate(nodes, links, FALSE)
          /\ emitted' = <<>>
          /\ t = now /\ UNCHANGED now
  /\ isProcessing' = FALSE
  /\ flows' = flows (-) One(f)
  /\ UNCHANGED <<selectedNode, connectionMode, resetKey, sourceNode, gesture,
                 alphaTarget>>
  /\ UNCHANGED <<view, viewport>>
  /\ statusMessage' = IF ok THEN Status("Roadmap generated.", 0)
                      ELSE Status("Error during synthesis.", 0)
  /\ render
  /\ UNCHANGED layout

\* handleSynthesize after `await synthesizeRoadmap(...)`; t is Date.now().
\* Where the agent call is followed to its result, the Roadmap node does not
\* count towards MaxNodes.
synthesizeRoadmapSettled(f, ok, t) ==
  /\ ~crashed /\ BagIn(f, flows) /\ f.kind = "synth"
  /\ IF ok
     THEN /\ Len(nodes) < MaxNodes + (IF f.res = Pending THEN 0 ELSE 1)
          /\ DataUpdate(addNode(nodes, NewNode(roadmapId(t), "ROADMAP", Wrap(0))),
                        AddLinks(links, f.sel, roadmapId(t)), TRUE)
          /\ emitted' = <<>>
          /\ now' = t
     ELSE /\ DataUpdate(nodes, links, FALSE)
          /\ emitted' = <<>>
          /\ t = now /\ UNCHANGED now
  /\ isProcessing' = FALSE
  /\ flows' = flows (-) One(f)
  /\ UNCHANGED <<selectedNode, connectionMode, resetKey, sourceNode, gesture,
                 alphaTarget>>
  /\ UNCHANGED <<view, viewport>>
  /\ statusMessage' = IF ok THEN Status("Roadmap generated.", 0)
                      ELSE Status("Error during synthesis.", 0)
  /\ render
  /\ UNCHANGED layout

\* ---------------------------------------------------- App.tsx: handleReset
\* handleReset with a canvas that is not remounted: sourceNode is kept
handleReset_sameCanvas ==
  /\ ~crashed /\ resetKey < MaxResets
  /\ DataUpdate(<<>>, EmptyBag, TRUE)
  /\ selectedNode' = NoSelection
  /\ isProcessing' = FALSE
  /\ connectionMode' = FALSE
  /\ resetKey' = resetKey + 1
  /\ sourceNode' = sourceNode
  /\ alphaTarget' = 0
  /\ gesture' = Rebind(Detach(gesture, DOMAIN nodes))
  /\ LET keep(f) == IF f.pc = "getExpertBrainstorm" /\ f.key = resetKey
                    THEN [f EXCEPT !.exX = nodes[f.exIdx].x]
                    ELSE f
     IN flows' = BagMap(keep, flows)
  /\ emitted' = <<>>
  /\ UNCHANGED now
  /\ view' = initialTransform
  /\ UNCHANGED viewport
  /\ statusMessage' = Status("Session reset.", 0)
  /\ render
  /\ UNCHANGED layout

\* The state setters, and the remount of GraphCanvas that the new key causes:
\* sourceNode starts over at null and the mount effect builds a new
\* simulation.  Flows in flight are not cancelled; a gesture in progress keeps
\* the objects of the canvas that was torn down.
handleReset ==
  /\ ~crashed /\ resetKey < MaxResets
  /\ DataUpdate(<<>>, EmptyBag, TRUE)
  /\ selectedNode' = NoSelection
  /\ isProcessing' = FALSE
  /\ connectionMode' = FALSE
  /\ resetKey' = resetKey + 1
  /\ sourceNode' = NoId
  /\ alphaTarget' = 0
  /\ gesture' = Rebind(Detach(gesture, DOMAIN nodes))
  /\ LET keep(f) == IF f.pc = "getExpertBrainstorm" /\ f.key = resetKey
                    THEN [f EXCEPT !.exX = nodes[f.exIdx].x]
                    ELSE f
     IN flows' = BagMap(keep, flows)
  /\ emitted' = <<>>
  /\ UNCHANGED now
  /\ view' = initialTransform
  /\ UNCHANGED viewport
  /\ statusMessage' = Status("Session reset.", 0)
  /\ render
  /\ UNCHANGED layout

\* NodeCard onClose
onClose ==
  /\ ~crashed /\ selectedNode.open
  /\ selectedNode' = NoSelection
  /\ gesture' = Rebind(gesture)
  /\ emitted' = <<>>
  /\ UNCHANGED <<nodes, links, isProcessing, connectionMode, resetKey, sourceNode,
                 alpha, alphaTarget, running, crashed, flows, now>>
  /\ UNCHANGED <<view, viewport>>
  /\ UNCHANGED statusMessage
  /\ render
  /\ UNCHANGED layout

\* --------------------------------- GraphCanvas.tsx: "Link Nodes" button
\* LinkNodesButton without setSourceNode(null)
LinkNodesButton_keepsSource ==
  /\ ~crashed
  /\ connectionMode' = ~connectionMode
  /\ emitted' = << <<"setConnectionMode", ~connectionMode>> >>
  /\ gesture' = Rebind(gesture)
  /\ UNCHANGED <<nodes, links, selectedNode, isProcessing, resetKey, sourceNode,
                 alpha, alphaTarget, running, crashed, flows, now>>
  /\ UNCHANGED <<view, viewport>>
  /\ UNCHANGED statusMessage
  /\ render
  /\ UNCHANGED layout

\* setConnectionMode(!connectionMode); setSourceNode(null)
LinkNodesButton ==
  /\ ~crashed
  /\ connectionMode' = ~connectionMode
  /\ sourceNode' = NoId
  /\ emitted' = << <<"setConnectionMode", ~connectionMode>>, <<"setSourceNode", NoId>> >>
  /\ gesture' = Rebind(gesture)
  /\ UNCHANGED <<nodes, links, selectedNode, isProcessing, resetKey,
                 alpha, alphaTarget, running, crashed, flows, now>>
  /\ UNCHANGED <<view, viewport>>
  /\ UNCHANGED statusMessage
  /\ render
  /\ UNCHANGED layout

\* --------------------------------------- GraphCanvas.tsx: node click handler
\* The branches of allNodes.on("click", ...); d is the datum of the clicked
\* element and ns the nodes array as the drag end handler left it.

\* if (event.defaultPrevented) return;
ignoreDragEndClick(ns) ==
  /\ nodes' = ns /\ emitted' = <<>>
  /\ UNCHANGED <<links, selectedNode, isProcessing, connectionMode, sourceNode,
                 alpha, running, crashed, flows, statusMessage>>

\* selectSource that also asks the store for a link
selectSource_linking(ns, d) ==
  /\ sourceNode' = d.id
  /\ links' = addLink(links, d.id, d.id)
  /\ nodes' = ns /\ emitted' = << <<"setSourceNode", d.id>> >>
  /\ UNCHANGED <<selectedNode, isProcessing, connectionMode,
                 alpha, running, crashed, flows, statusMessage>>

\* setSourceNode(d.id)
selectSource(ns, d) ==
  /\ sourceNode' = d.id
  /\ nodes' = ns /\ emitted' = << <<"setSourceNode", d.id>> >>
  /\ UNCHANGED <<links, selectedNode, isProcessing, connectionMode,
                 alpha, running, crashed, flows, statusMessage>>

\* connectTarget with the arguments of onConnect exchanged
connectTarget_swapped(ns, d) ==
  /\ BagIn(<<d.id, sourceNode>>, links) \/ BagCardinality(links) < MaxLinks
  /\ handleConnect(ns, d.id, sourceNode)
  /\ sourceNode' = NoId
  /\ emitted' = << <<"onConnect", d.id, sourceNode>> >>
  /\ UNCHANGED selectedNode

\* onConnect(sourceNode, d.id); setSourceNode(null); setConnectionMode(false)
connectTarget(ns, d) ==
  /\ BagIn(<<sourceNode, d.id>>, links) \/ BagCardinality(links) < MaxLinks
  /\ handleConnect(ns, sourceNode, d.id)
  /\ sourceNode' = NoId
  /\ emitted' = << <<"onConnect", sourceNode, d.id>> >>
  /\ UNCHANGED selectedNode

\* deselectSource that leaves connect mode as a completed gesture does
deselectSource_exitsMode(ns) ==
  /\ sourceNode' = NoId
  /\ connectionMode' = FALSE
  /\ nodes' = ns /\ emitted' = << <<"setSourceNode", NoId>> >>
  /\ UNCHANGED <<links, selectedNode, isProcessing,
                 alpha, running, crashed, flows, statusMessage>>

\* setSourceNode(null) for a second click on the pending source
deselectSource(ns) ==
  /\ sourceNode' = NoId
  /\ nodes' = ns /\ emitted' = << <<"setSourceNode", NoId>> >>
  /\ UNCHANGED <<links, selectedNode, isProcessing, connectionMode,
                 alpha, running, crashed, flows, statusMessage>>

\* onNodeClick that also makes the node the pending source
onNodeClick_marksSource(ns, d) ==
  /\ selectedNode' = CardOf(d)
  /\ sourceNode' = d.id
  /\ nodes' = ns /\ emitted' = << <<"onNodeClick", d.id>> >>
  /\ UNCHANGED <<links, isProcessing, connectionMode,
                 alpha, running, crashed, flows, statusMessage>>

\* onNodeClick(d): App's setSelectedNode
onNodeClick(ns, d) ==
  /\ selectedNode' = CardOf(d)
  /\ nodes' = ns /\ emitted' = << <<"onNodeClick", d.id>> >>
  /\ UNCHANGED <<links, isProcessing, connectionMode, sourceNode,
                 alpha, running, crashed, flows, statusMessage>>

\* click without the d.id !== sourceNode test
click_noSelfTest(ns, i, defaultPrevented) ==
  LET d == ns[i] IN
  IF defaultPrevented THEN ignoreDragEndClick(ns)
  ELSE IF connectionMode
       THEN IF sourceNode = NoId THEN selectSource(ns, d)
            ELSE connectTarget(ns, d)
       ELSE onNodeClick(ns, d)

\* click without the defaultPrevented test
click_afterDrag(ns, i, defaultPrevented) ==
  LET d == ns[i] IN
  IF connectionMode
  THEN IF sourceNode = NoId THEN selectSource(ns, d)
       ELSE IF d.id # sourceNode THEN connectTarget(ns, d)
       ELSE deselectSource(ns)
  ELSE onNodeClick(ns, d)

\* defaultPrevented is set by d3-drag on the click that ends a gesture in
\* which the pointer moved.
click(ns, i, defaultPrevented) ==
  LET d == ns[i] IN
  IF defaultPrevented THEN ignoreDragEndClick(ns)
  ELSE IF connectionMode
       THEN IF sourceNode = NoId THEN selectSource(ns, d)
            ELSE IF d.id # sourceNode THEN connectTarget(ns, d)
            ELSE deselectSource(ns)
       ELSE onNodeClick(ns, d)

\* ------------------------------------------------ GraphCanvas.tsx: d3.drag
\* drag "start": pointer-down on the element bound to nodes[i].  One pointer:
\* event.active is 0 at the start of the gesture.
dragstart(i, touch) ==
  /\ ~crashed /\ ~gesture.active /\ i \in DOMAIN nodes
  /\ alphaTarget' = AlphaDragTarget
  /\ running' = TRUE
  /\ nodes' = [nodes EXCEPT ![i].fx = nodes[i].x]
  /\ gesture' = [active |-> TRUE, idx |-> i, key |-> resetKey, moved |-> FALSE,
                 live |-> TRUE, obj |-> NoObj, touch |-> touch, bound |-> TRUE]
  /\ emitted' = <<>>
  /\ UNCHANGED <<links, selectedNode, isProcessing, connectionMode, resetKey,
                 sourceNode, alpha, crashed, flows, now>>
  /\ UNCHANGED <<view, viewport>>
  /\ UNCHANGED statusMessage
  /\ render
  /\ UNCHANGED layout

\* the gesture starts with a mouse button
DragStart(i) == dragstart(i, FALSE)

\* the gesture starts with a finger
TouchStart(i) == dragstart(i, TRUE)

\* drag "drag": the pointer moved to coordinate c; d is the datum captured at
\* pointer-down
DragMove(c) ==
  /\ ~crashed /\ gesture.active /\ gesture.bound
  /\ IF gesture.live
     THEN /\ nodes' = [nodes EXCEPT ![gesture.idx].fx = c]
          /\ gesture' = [gesture EXCEPT !.moved = TRUE]
     ELSE /\ gesture' = [gesture EXCEPT !.moved = TRUE, !.obj.fx = c]
          /\ UNCHANGED nodes
  /\ emitted' = <<>>
  /\ UNCHANGED <<links, selectedNode, isProcessing, connectionMode, resetKey,
                 sourceNode, alpha, alphaTarget, running, crashed, flows, now>>
  /\ UNCHANGED <<view, viewport>>
  /\ UNCHANGED statusMessage
  /\ render
  /\ UNCHANGED layout

\* drag "end" at pointer-up, then the click the browser dispatches to the
\* element when it is still in the document.  The end handler's `simulation`
\* is the one of the canvas the gesture started on.
DragEnd ==
  /\ ~crashed /\ gesture.active /\ gesture.bound
  /\ LET g  == gesture
         ns == IF g.live THEN [nodes EXCEPT ![g.idx].fx = NullCoord] ELSE nodes
     IN /\ alphaTarget' = IF g.key = resetKey THEN 0 ELSE alphaTarget
        /\ IF g.key = resetKey /\ g.idx \in DOMAIN ns
           THEN click(ns, g.idx, g.moved)
           ELSE /\ nodes' = ns /\ emitted' = <<>>
                /\ UNCHANGED <<links, selectedNode, isProcessing, connectionMode,
                               sourceNode, alpha, running, crashed, flows, statusMessage>>
  /\ gesture' = NoGesture
  /\ UNCHANGED <<resetKey, now>>
  /\ UNCHANGED <<view, viewport>>
  /\ render
  /\ UNCHANGED layout

\* The finger of a touch gesture is lifted after the render effect has run
\* again: the touchend reaches no listener that knows the gesture, so the
\* "end" handler does not run, and no click follows.
TouchEndUnbound ==
  /\ ~crashed /\ gesture.active /\ ~gesture.bound
  /\ gesture' = NoGesture
  /\ emitted' = <<>>
  /\ UNCHANGED <<nodes, links, selectedNode, isProcessing, connectionMode,
                 resetKey, sourceNode, alpha, alphaTarget, running, crashed,
                 flows, now>>
  /\ UNCHANGED <<view, viewport>>
  /\ UNCHANGED statusMessage
  /\ render
  /\ UNCHANGED layout

\* ------------------------------------------ d3 force simulation: one tick
\* alpha moves towards alphaTarget; a pinned node is put on fx with velocity
\* 0, the others get the velocity the forces leave them (dx) and move by it;
\* the timer stops below alphaMin.
tick(dx) ==
  /\ ~crashed /\ running
  /\ LET a == IF alpha < alphaTarget THEN alpha + 1
              ELSE IF alpha > alphaTarget THEN alpha - 1 ELSE alpha
     IN /\ alpha' = a
        /\ running' = ~(a < AlphaMin)
  /\ nodes' = [i \in DOMAIN nodes |->
                 IF nodes[i].fx = NullCoord
                 THEN [nodes[i] EXCEPT !.vx = dx, !.x = Wrap(nodes[i].x + dx)]
                 ELSE [nodes[i] EXCEPT !.vx = 0, !.x = nodes[i].fx]]
  /\ emitted' = <<>>
  /\ UNCHANGED <<links, selectedNode, isProcessing, connectionMode, resetKey,
                 sourceNode, gesture, alphaTarget, crashed, flows, now>>
  /\ UNCHANGED <<view, viewport>>
  /\ UNCHANGED statusMessage
  /\ render
  /\ UNCHANGED layout

\* A press and release on the element bound to nodes[i] with no pointer
\* movement and nothing in between: drag "start", drag "end", then click.
\* The pin set by "start" is cleared by "end"; the timer is left restarted
\* with target 0.
NodeClick(i) ==
  /\ ~crashed /\ ~gesture.active /\ i \in DOMAIN nodes
  /\ alphaTarget' = 0
  /\ click(nodes, i, FALSE)
  /\ UNCHANGED <<resetKey, gesture, now>>
  /\ UNCHANGED <<view, viewport>>
  /\ render
  /\ UNCHANGED layout

\* ------------------------------------------- GraphCanvas.tsx: view controls
\* v || d
OrElse(v, d) == IF v = 0 THEN d ELSE v

\* a / b in hundredths
Quot(a, b) == IF b = 0 THEN Infinity ELSE (a * 100) \div b

SetMin(S) == CHOOSE m \in S : \A e \in S : m <= e
SetMax(S) == CHOOSE m \in S : \A e \in S : m >= e

\* d3.select(svg).transition().call(zoom.scaleBy, 1.2)
handleZoomIn ==
  /\ ~crashed
  /\ view' = scaleBy(view, ZoomInFactor)
  /\ emitted' = <<>>
  /\ UNCHANGED <<nodes, links, selectedNode, isProcessing, connectionMode,
                 resetKey, sourceNode, gesture, alpha, alphaTarget, running,
                 crashed, flows, now, viewport, statusMessage>>
  /\ render
  /\ UNCHANGED layout

\* handleZoomOut with the factor 1 / 1.2
handleZoomOut_inverse ==
  /\ ~crashed
  /\ view' = scaleBy(view, 83)
  /\ emitted' = <<>>
  /\ UNCHANGED <<nodes, links, selectedNode, isProcessing, connectionMode,
                 resetKey, sourceNode, gesture, alpha, alphaTarget, running,
                 crashed, flows, now, viewport, statusMessage>>
  /\ render
  /\ UNCHANGED layout

\* d3.select(svg).transition().call(zoom.scaleBy, 0.8)
handleZoomOut ==
  /\ ~crashed
  /\ view' = scaleBy(view, ZoomOutFactor)
  /\ emitted' = <<>>
  /\ UNCHANGED <<nodes, links, selectedNode, isProcessing, connectionMode,
                 resetKey, sourceNode, gesture, alpha, alphaTarget, running,
                 crashed, flows, now, viewport, statusMessage>>
  /\ render
  /\ UNCHANGED layout

\* The bounding box handleFitView computes, in px.  The model keeps the x
\* coordinate of a node; ys gives the y coordinates the simulation holds.
Box(ys) ==
  LET xMin == OrElse(SetMin({CoordPx * nodes[i].x : i \in DOMAIN nodes}), 0)
      xMax == OrElse(SetMax({CoordPx * nodes[i].x : i \in DOMAIN nodes}), 0)
      yMin == OrElse(SetMin({CoordPx * ys[i] : i \in DOMAIN nodes}), 0)
      yMax == OrElse(SetMax({CoordPx * ys[i] : i \in DOMAIN nodes}), 0)
  IN [graphWidth |-> xMax - xMin, graphHeight |-> yMax - yMin,
      sumX |-> xMin + xMax, sumY |-> yMin + yMax]

\* handleFitView without the test of graphWidth and graphHeight
handleFitView_unguarded(ys) ==
  /\ ~crashed
  /\ LET width  == OrElse(viewport[1], DefaultWidth)
         height == OrElse(viewport[2], DefaultHeight)
         b      == Box(ys)
         scale  == Min(Min(Quot(width - FitPadding, b.graphWidth),
                           Quot(height - FitPadding, b.graphHeight)),
                       FitMaxScale)
         \* zoomIdentity.translate(width / 2, height / 2).scale(scale)
         \*   .translate(-midX, -midY)
         transform == [k |-> scale, cx2 |-> b.sumX, cy2 |-> b.sumY]
     IN view' = IF Len(nodes) = 0 THEN view ELSE transform
  /\ emitted' = <<>>
  /\ UNCHANGED <<nodes, links, selectedNode, isProcessing, connectionMode,
                 resetKey, sourceNode, gesture, alpha, alphaTarget, running,
                 crashed, flows, now, viewport, statusMessage>>
  /\ render
  /\ UNCHANGED layout

\* handleFitView without the cap of 1.5
handleFitView_uncapped(ys) ==
  /\ ~crashed
  /\ LET width  == OrElse(viewport[1], DefaultWidth)
         height == OrElse(viewport[2], DefaultHeight)
         b      == Box(ys)
         scale  == Min(Quot(width - FitPadding, b.graphWidth),
                       Quot(height - FitPadding, b.graphHeight))
         \* zoomIdentity.translate(width / 2, height / 2).scale(scale)
         \*   .translate(-midX, -midY)
         transform == [k |-> scale, cx2 |-> b.sumX, cy2 |-> b.sumY]
     IN view' = IF Len(nodes) = 0 THEN view
                ELSE IF b.graphWidth = 0 \/ b.graphHeight = 0 THEN view
                ELSE transform
  /\ emitted' = <<>>
  /\ UNCHANGED <<nodes, links, selectedNode, isProcessing, connectionMode,
                 resetKey, sourceNode, gesture, alpha, alphaTarget, running,
                 crashed, flows, now, viewport, statusMessage>>
  /\ render
  /\ UNCHANGED layout

\* handleFitView: zoom.transform sets the transform it is given as it is
handleFitView(ys) ==
  /\ ~crashed
  /\ LET width  == OrElse(viewport[1], DefaultWidth)
         height == OrElse(viewport[2], DefaultHeight)
         b      == Box(ys)
         scale  == Min(Min(Quot(width - FitPadding, b.graphWidth),
                           Quot(height - FitPadding, b.graphHeight)),
                       FitMaxScale)
         \* zoomIdentity.translate(width / 2, height / 2).scale(scale)
         \*   .translate(-midX, -midY)
         transform == [k |-> scale, cx2 |-> b.sumX, cy2 |-> b.sumY]
     IN view' = IF Len(nodes) = 0 THEN view
                ELSE IF b.graphWidth = 0 \/ b.graphHeight = 0 THEN view
                ELSE transform
  /\ emitted' = <<>>
  /\ UNCHANGED <<nodes, links, selectedNode, isProcessing, connectionMode,
                 resetKey, sourceNode, gesture, alpha, alphaTarget, running,
                 crashed, flows, now, viewport, statusMessage>>
  /\ render
  /\ UNCHANGED layout

\* d3.zoom wheel gesture: the scale times f, clamped to scaleExtent (the
\* model keeps the pointer on the centre of the viewport)
wheel(f) ==
  /\ ~crashed
  /\ view' = scaleBy(view, f)
  /\ emitted' = <<>>
  /\ UNCHANGED <<nodes, links, selectedNode, isProcessing, connectionMode,
                 resetKey, sourceNode, gesture, alpha, alphaTarget, running,
                 crashed, flows, now, viewport, statusMessage>>
  /\ render
  /\ UNCHANGED layout

\* d3.zoom drag on the background: the view moves with the pointer by d px,
\* the graph point under the centre by -d / k (the model pans at scale 1 only)
pan(d) ==
  /\ ~crashed /\ view.k = ScaleOne
  /\ view.cx2 - 2 * d[1] \in -2 * MaxPan .. 2 * MaxPan
  /\ view.cy2 - 2 * d[2] \in -2 * MaxPan .. 2 * MaxPan
  /\ view' = [view EXCEPT !.cx2 = @ - 2 * d[1], !.cy2 = @ - 2 * d[2]]
  /\ emitted' = <<>>
  /\ UNCHANGED <<nodes, links, selectedNode, isProcessing, connectionMode,
                 resetKey, sourceNode, gesture, alpha, alphaTarget, running,
                 crashed, flows, now, viewport, statusMessage>>
  /\ render
  /\ UNCHANGED layout

\* ---------------------------------------------------------- specification
\* One session: the start, the experts, the connect gesture with the
\* brainstorm flows it starts, and the node card.  Deep dive and synthesis are
\* in SpecAgent.
Next ==
  \/ handleStart
  \/ \E f \in BagToSet(flows), ok \in BOOLEAN : gatekeeperTranslateSettled(f, ok)
  \/ \E t \in now .. MaxClock : handleAddExpert(t)
  \/ \E f \in BagToSet(flows), n \in 0 .. MaxTopics, m \in BOOLEAN :
       getExpertBrainstormSettled(f, n, m)
  \/ \E f \in BagToSet(flows), ok \in BOOLEAN : generateTopicContentSettled(f, ok)
  \/ \E f \in BagToSet(flows), t \in now .. MaxClock, img \in BOOLEAN :
       generateConceptImageSettled(f, t, img)
  \/ toggleNodeSelection
  \/ onClose
  \/ LinkNodesButton
  \/ \E i \in 1 .. MaxNodes : NodeClick(i)

Spec == Init /\ [][Next]_vars

\* ------------------------------------------------- session reset in focus
\* The start flow, the experts and their flows, the connect gesture, and the
\* reset button pressed at any moment.
ResetNext ==
  \/ handleStart
  \/ \E f \in BagToSet(flows), ok \in BOOLEAN : gatekeeperTranslateSettled(f, ok)
  \/ \E t \in now .. MaxClock : handleAddExpert(t)
  \/ \E f \in BagToSet(flows), n \in 0 .. MaxTopics, m \in BOOLEAN :
       getExpertBrainstormSettled(f, n, m)
  \/ \E f \in BagToSet(flows), ok \in BOOLEAN : generateTopicContentSettled(f, ok)
  \/ \E f \in BagToSet(flows), t \in now .. MaxClock, img \in BOOLEAN :
       generateConceptImageSettled(f, t, img)
  \/ handleReset
  \/ LinkNodesButton
  \/ \E i \in 1 .. MaxNodes : NodeClick(i)

SpecReset == Init /\ [][ResetNext]_vars

\* ------------------------------------------- drag and simulation in focus
\* The state right after handleStart and a resolved gatekeeperTranslate: the
\* user's node, the Gatekeeper and the link between them, the simulation
\* just reheated.
DragInit ==
  /\ nodes = << NewNode(userId, "USER_INPUT", Wrap(-1)),
                NewNode(gatekeeperId, "GATEKEEPER", Wrap(1)) >>
  /\ links = One(<<userId, gatekeeperId>>)
  /\ selectedNode = NoSelection
  /\ isProcessing = FALSE
  /\ connectionMode = FALSE
  /\ resetKey = 0
  /\ sourceNode = NoId
  /\ gesture = NoGesture
  /\ alpha = AlphaOne
  /\ alphaTarget = 0
  /\ running = TRUE
  /\ crashed = FALSE
  /\ flows = EmptyBag
  /\ now = 0
  /\ emitted = <<>>
  /\ viewport = <<DefaultWidth, DefaultHeight>>
  /\ view = initialTransform
  /\ statusMessage = Status("Principle extracted. Ready for experts.", 0)
  /\ elements = bindKey(<<>>, nodes)
  /\ layout = NoLayout

DragNext ==
  \/ \E i \in 1 .. MaxNodes : DragStart(i)
  \/ \E c \in Coord : DragMove(c)
  \/ DragEnd
  \/ \E dx \in Coord : tick(dx)
  \/ toggleNodeSelection
  \/ onClose
  \/ LinkNodesButton

SpecDrag == DragInit /\ [][DragNext]_vars

\* ------------------------------------------------- touch gestures in focus
TouchNext ==
  \/ \E i \in 1 .. MaxNodes : TouchStart(i)
  \/ \E c \in Coord : DragMove(c)
  \/ DragEnd
  \/ TouchEndUnbound
  \/ \E dx \in Coord : tick(dx)
  \/ toggleNodeSelection
  \/ onClose
  \/ LinkNodesButton

SpecTouch == DragInit /\ [][TouchNext]_vars

\* ---------------------------------------------------- view transform in focus
Viewports == {<<DefaultWidth, DefaultHeight>>, <<NarrowSide, DefaultHeight>>,
              <<DefaultWidth, NarrowSide>>}
PanMoves  == {<<PanStep, 0>>, <<-PanStep, 0>>}
Rows      == 0 .. MaxRow

\* A session before the start, after a start whose Gatekeeper call failed, or
\* after a completed start, with the nodes where the simulation has left them.
ViewInit ==
  /\ \E n \in 0 .. 2, xs \in [1 .. 2 -> Coord] :
       /\ nodes = SubSeq(<< NewNode(userId, "USER_INPUT", xs[1]),
                            NewNode(gatekeeperId, "GATEKEEPER", xs[2]) >>, 1, n)
       /\ links = IF n = 2 THEN One(<<userId, gatekeeperId>>) ELSE EmptyBag
       /\ statusMessage =
            IF n = 0 THEN Status("", 0)
            ELSE IF n = 1 THEN Status("Error processing input.", 0)
            ELSE Status("Principle extracted. Ready for experts.", 0)
  /\ selectedNode = NoSelection
  /\ isProcessing = FALSE
  /\ connectionMode = FALSE
  /\ resetKey = 0
  /\ sourceNode = NoId
  /\ gesture = NoGesture
  /\ alpha = AlphaOne
  /\ alphaTarget = 0
  /\ running = TRUE
  /\ crashed = FALSE
  /\ flows = EmptyBag
  /\ now = 0
  /\ emitted = <<>>
  /\ viewport \in Viewports
  /\ view = initialTransform
  /\ elements = bindKey(<<>>, nodes)
  /\ layout = NoLayout

ViewNext ==
  \/ handleZoomIn
  \/ handleZoomOut
  \/ \E ys \in [DOMAIN nodes -> Rows] : handleFitView(ys)
  \/ \E f \in {WheelOut, WheelIn} : wheel(f)
  \/ \E d \in PanMoves : pan(d)
  \/ handleReset
  \/ handleStart

SpecView == ViewInit /\ [][ViewNext]_vars

\* ------------------------------------------------- agent calls in focus
\* The answers the model can give to the call a flow is suspended at.
Answers(pc, most) ==
  {Answer(TRUE, "", NoTopics, FALSE)} \cup
  (IF pc = "getExpertBrainstorm"
   THEN {Answer(FALSE, tx, NoTopics, FALSE) : tx \in {"", "prose"}} \cup
        {Answer(FALSE, "json", n, FALSE) : n \in {NoTopics} \cup (0 .. most)}
   ELSE IF pc = "generateConceptImage"
   THEN {Answer(FALSE, "", NoTopics, il) : il \in BOOLEAN}
   ELSE IF pc = "generateTopicContent"
   THEN {Answer(FALSE, tx, NoTopics, FALSE) : tx \in {"", "prose", "json"}}
   ELSE {Answer(FALSE, tx, NoTopics, FALSE) : tx \in {"", "prose"}})

Settled(f) == f.res.promise.state # "pending"
Ok(f)      == f.res.promise.state = "fulfilled"

\* A session before the start, or one after a completed start and one
\* handleAddExpert: the user's node, the Gatekeeper, one Expert, connect mode
\* on.
AgentInit ==
  /\ \E started \in BOOLEAN :
       /\ nodes = IF started
                  THEN << NewNode(userId, "USER_INPUT", Wrap(-1)),
                          NewNode(gatekeeperId, "GATEKEEPER", Wrap(1)),
                          NewNode(expertId(0), "EXPERT", Wrap(0)) >>
                  ELSE <<>>
       /\ links = IF started THEN One(<<userId, gatekeeperId>>) ELSE EmptyBag
       /\ connectionMode = started
       /\ statusMessage = IF started
                          THEN Status("spawned. Link to Gatekeeper to brainstorm.", 0)
                          ELSE Status("", 0)
  /\ selectedNode = NoSelection
  /\ isProcessing = FALSE
  /\ resetKey = 0
  /\ sourceNode = NoId
  /\ gesture = NoGesture
  /\ alpha = AlphaOne
  /\ alphaTarget = 0
  /\ running = TRUE
  /\ crashed = FALSE
  /\ flows = EmptyBag
  /\ now = 0
  /\ emitted = <<>>
  /\ viewport = <<DefaultWidth, DefaultHeight>>
  /\ view = initialTransform
  /\ elements = bindKey(<<>>, nodes)
  /\ layout = NoLayout

\* One session in which every agent call is followed from the model's answer
\* to the value or the exception the flow receives.  The user clicks on the
\* canvas between flows, not while one is in flight (the flows of such
\* sessions overlap; Spec has them).
AgentNext ==
  \/ handleStart
  \/ \E f \in BagToSet(flows) : \E r \in Answers(f.pc, MaxTopics) : generateContent(f, r)
  \/ \E f \in BagToSet(flows) : Settled(f) /\ gatekeeperTranslateSettled(f, Ok(f))
  \/ \E f \in BagToSet(flows) :
       /\ Settled(f) /\ Ok(f)
       /\ getExpertBrainstormSettled(f, f.res.promise.topics,
                                     f.res.promise.topics = NoTopics)
  \/ \E f \in BagToSet(flows) : Settled(f) /\ generateTopicContentSettled(f, Ok(f))
  \/ \E f \in BagToSet(flows), t \in now .. MaxClock :
       /\ Settled(f) /\ Ok(f)
       /\ generateConceptImageSettled(f, t, f.res.promise.image)
  \/ toggleNodeSelection
  \/ handleDeepDive
  \/ \E f \in BagToSet(flows) : Settled(f) /\ Ok(f) /\ generateDeepConnectionSettled(f)
  \/ handleSynthesize
  \/ \E f \in BagToSet(flows), t \in now .. MaxClock :
       Settled(f) /\ synthesizeRoadmapSettled(f, Ok(f), t)
  \/ LinkNodesButton
  \/ flows = EmptyBag /\ \E i \in 1 .. MaxNodes + 1 : NodeClick(i)

SpecAgent == AgentInit /\ [][AgentNext]_vars

\* ------------------------------------------ one brainstorm flow in focus
\* The session after a completed start and one handleAddExpert, which left
\* connect mode on.
BrainstormInit ==
  /\ nodes = << NewNode(userId, "USER_INPUT", Wrap(-1)),
                NewNode(gatekeeperId, "GATEKEEPER", Wrap(1)),
                NewNode(expertId(0), "EXPERT", Wrap(0)) >>
  /\ links = One(<<userId, gatekeeperId>>)
  /\ connectionMode = TRUE
  /\ statusMessage = Status("spawned. Link to Gatekeeper to brainstorm.", 0)
  /\ selectedNode = NoSelection
  /\ isProcessing = FALSE
  /\ resetKey = 0
  /\ sourceNode = NoId
  /\ gesture = NoGesture
  /\ alpha = AlphaOne
  /\ alphaTarget = 0
  /\ running = TRUE
  /\ crashed = FALSE
  /\ flows = EmptyBag
  /\ now = 0
  /\ emitted = <<>>
  /\ viewport = <<DefaultWidth, DefaultHeight>>
  /\ view = initialTransform
  /\ elements = bindKey(<<>>, nodes)
  /\ layout = NoLayout

\* The user's clicks on the canvas and the steps of the brainstorm flow, with
\* answers of up to MaxAnswer topics.  The "Link Nodes" button is not
\* pressed, so the session has one connect request: connect mode is on at the
\* start and the request turns it off.
BrainstormNext ==
  \/ \E f \in BagToSet(flows) :
       \E r \in Answers(f.pc, MaxAnswer) : generateContent(f, r)
  \/ \E f \in BagToSet(flows) :
       /\ Settled(f) /\ Ok(f)
       /\ getExpertBrainstormSettled(f, f.res.promise.topics,
                                     f.res.promise.topics = NoTopics)
  \/ \E f \in BagToSet(flows) : Settled(f) /\ generateTopicContentSettled(f, Ok(f))
  \/ \E f \in BagToSet(flows), t \in now .. MaxClock :
       /\ Settled(f) /\ Ok(f)
       /\ generateConceptImageSettled(f, t, f.res.promise.image)
  \/ \E i \in 1 .. MaxNodes + TopicLimit - 1 : NodeClick(i)

SpecBrainstorm == BrainstormInit /\ [][BrainstormNext]_vars

\* --------------------------------------------------- node card in focus
\* The session after a completed start, one handleAddExpert, the connect
\* gesture Gatekeeper -> Expert and a brainstorm flow that produced one
\* concept: four nodes, three links, connect mode off, nothing in flight.
CardInit ==
  /\ nodes = << NewNode(userId, "USER_INPUT", Wrap(-1)),
                NewNode(gatekeeperId, "GATEKEEPER", Wrap(1)),
                NewNode(expertId(0), "EXPERT", Wrap(0)),
                NewNode(conceptId(0, 1), "CONCEPT", Wrap(-1)) >>
  /\ links = SetToBag({<<userId, gatekeeperId>>, <<gatekeeperId, expertId(0)>>,
                       <<gatekeeperId, conceptId(0, 1)>>})
  /\ connectionMode = FALSE
  /\ statusMessage = Status("added new perspectives.", 1)
  /\ selectedNode = NoSelection
  /\ isProcessing = FALSE
  /\ resetKey = 0
  /\ sourceNode = NoId
  /\ gesture = NoGesture
  /\ alpha = AlphaOne
  /\ alphaTarget = 0
  /\ running = TRUE
  /\ crashed = FALSE
  /\ flows = EmptyBag
  /\ now = 0
  /\ emitted = <<>>
  /\ viewport = <<DefaultWidth, DefaultHeight>>
  /\ view = initialTransform
  /\ elements = bindKey(<<>>, nodes)
  /\ layout = NoLayout

\* The node card (open by a click, close, selection toggle, deep dive) and
\* the connect gesture at any moment, flows in flight or not.  The brainstorm
\* answers of this session carry no topic, or no topics array.
CardNext ==
  \/ \E i \in 1 .. MaxNodes : NodeClick(i)
  \/ onClose
  \/ toggleNodeSelection
  \/ handleDeepDive
  \/ \E f \in BagToSet(flows) : generateDeepConnectionSettled(f)
  \/ LinkNodesButton
  \/ \E f \in BagToSet(flows), m \in BOOLEAN : getExpertBrainstormSettled(f, 0, m)

SpecCard == CardInit /\ [][CardNext]_vars

\* ------------------------------------------- the end of flows in focus
\* The node records a flow in flight can still add: the Gatekeeper of a start
\* flow, the Roadmap of a synthesis, and the concepts of the topics a connect
\* flow has left.
Owed(f) ==
  IF f.kind \in {"start", "synth"} THEN 1
  ELSE IF f.kind = "connect" /\ f.pc # "getExpertBrainstorm" THEN f.left
  ELSE 0

RECURSIVE Reserve(_, _)
Reserve(B, S) ==
  IF S = {} THEN 0
  ELSE LET f == CHOOSE f \in S : TRUE
       IN CopiesIn(f, B) * Owed(f) + Reserve(B, S \ {f})

\* the collection has room for every record the flows in flight can add
Room == Len(nodes) + Reserve(flows, BagToSet(flows)) <= MaxNodes

\* An async handler resumed after React unmounted the tree: it runs on
\* through its remaining awaits to the end of its finally block, and its
\* state setters have no effect.
resumedUnmounted(f) ==
  /\ crashed /\ BagIn(f, flows)
  /\ flows' = flows (-) One(f)
  /\ UNCHANGED <<nodes, links, selectedNode, isProcessing, connectionMode, resetKey,
                 sourceNode, gesture, alpha, alphaTarget, running, crashed, now,
                 emitted, view, viewport, statusMessage, elements, layout>>

\* The session of BrainstormInit with every flow of App, the node card's
\* buttons and the reset button.  The user starts a flow that adds a node,
\* and the model answers a brainstorm with topics, only while the collection
\* has room for the nodes.
LiveStarts ==
  \/ handleStart /\ Room'
  \/ \E i \in 1 .. MaxNodes : NodeClick(i)
  \/ handleDeepDive
  \/ handleSynthesize /\ Room'

FlowSteps ==
  \/ \E f \in BagToSet(flows), ok \in BOOLEAN : gatekeeperTranslateSettled(f, ok)
  \/ \E f \in BagToSet(flows), n \in 0 .. MaxTopics, m \in BOOLEAN :
       getExpertBrainstormSettled(f, n, m) /\ Room'
  \/ \E f \in BagToSet(flows), ok \in BOOLEAN : generateTopicContentSettled(f, ok)
  \/ \E f \in BagToSet(flows), t \in now .. MaxClock, img \in BOOLEAN :
       generateConceptImageSettled(f, t, img)
  \/ \E f \in BagToSet(flows) : generateDeepConnectionSettled(f)
  \/ \E f \in BagToSet(flows), ok \in BOOLEAN, t \in now .. MaxClock :
       synthesizeRoadmapSettled(f, ok, t)
  \/ \E f \in BagToSet(flows) : resumedUnmounted(f)

LiveNext ==
  \/ LiveStarts
  \/ FlowSteps
  \/ toggleNodeSelection
  \/ LinkNodesButton
  \/ handleReset

\* Every awaited agent call settles, and the event loop then runs the
\* continuation of the handler that awaits it.
SpecLive == BrainstormInit /\ [][LiveNext]_vars /\ WF_vars(FlowSteps)

\* ------------------------------------------- the simulation in numbers
\* Two nodes given to the canvas one after the other, the second with the
\* link between them, and the ticks of the simulation's timer.
appVars == <<nodes, links, selectedNode, isProcessing, connectionMode, resetKey,
             sourceNode, gesture, alpha, alphaTarget, running, crashed, flows,
             now, emitted, view, viewport, statusMessage, elements>>

\* where the second node is put, px
StartsB == {<<50, 50>>, <<50, 20>>, <<-50, 50>>}

\* data-update effect for nodes = [A]: simulation.nodes(nodes) keeps the x, y
\* the node has and sets vx = vy = 0; alpha(1).restart()
addNodeA ==
  /\ layout.n = 0
  /\ layout' = [layout EXCEPT !.n = 1, !.a = Body(0, 0), !.alpha = AlphaScale,
                              !.ticks = 0]
  /\ UNCHANGED appVars

\* data-update effect for nodes = [A, B], links = [(A, B)]
addNodeB(p) ==
  /\ layout.n = 1
  /\ layout' = [layout EXCEPT !.n = 2, !.b = Body(p[1], p[2]), !.b0 = p,
                              !.alpha = AlphaScale, !.ticks = 0]
  /\ UNCHANGED appVars

\* one tick of the simulation's timer
simulationTick ==
  /\ layout.n > 0 /\ layout.ticks < MaxTicks /\ ~layout.nan
  /\ layout' = Step(layout)
  /\ UNCHANGED appVars

ForceNext ==
  \/ addNodeA
  \/ \E p \in StartsB : addNodeB(p)
  \/ simulationTick

SpecForce == Init /\ [][ForceNext]_vars


\* ------------------------------------------------------------------ claims
\* C1: in connect mode with source A pending, a click on a node with another
\* id B makes exactly one onConnect(A, B) call, after which connect mode is
\* off, no source is pending and the link (A, B) exists exactly once; a click
\* with no source pending makes the clicked node the pending source.  (The
\* scenario click A, A, A, B is the composition select, deselect, select,
\* connect of these steps and the one of C2.)
C1_ConnectEmitsOnce ==
  [][\A i \in DOMAIN nodes :
       NodeClick(i) /\ connectionMode =>
         /\ sourceNode = NoId =>
              sourceNode' = nodes[i].id /\ connectionMode' /\ links' = links
         /\ sourceNode # NoId /\ nodes[i].id # sourceNode =>
              /\ emitted' = << <<"onConnect", sourceNode, nodes[i].id>> >>
              /\ ~connectionMode'
              /\ sourceNode' = NoId
              /\ CopiesIn(<<sourceNode, nodes[i].id>>, links') = 1]_vars

\* a connect request for a new pair was just made: the link exists once,
\* connect mode is off and no source is pending
C1_Witness ==
  /\ Len(emitted) = 1 /\ emitted[1][1] = "onConnect"
  /\ emitted[1][2] # emitted[1][3]
  /\ CopiesIn(<<emitted[1][2], emitted[1][3]>>, links) = 1
  /\ ~connectionMode /\ sourceNode = NoId

\* C2: a second click on the pending source makes no onConnect call, leaves
\* nodes and links as they are, clears the pending source and leaves connect
\* mode on.
C2_SelfLinkRejected ==
  [][\A i \in DOMAIN nodes :
       NodeClick(i) /\ connectionMode /\ sourceNode # NoId /\ nodes[i].id = sourceNode =>
         /\ emitted' = << <<"setSourceNode", NoId>> >>
         /\ links' = links /\ nodes' = nodes
         /\ sourceNode' = NoId
         /\ connectionMode']_vars

\* the pending source was just deselected by a click: connect mode is on, no
\* source is pending
C2_Witness ==
  /\ emitted = << <<"setSourceNode", NoId>> >>
  /\ connectionMode /\ sourceNode = NoId

\* C3: the Link Nodes button pressed in connect mode, with or without a
\* pending source, turns connect mode off, leaves no source pending, makes
\* no onConnect call and leaves nodes and links unchanged.
C3_ToggleOffCancels ==
  [][LinkNodesButton /\ connectionMode =>
       /\ ~connectionMode' /\ sourceNode' = NoId
       /\ \A k \in DOMAIN emitted' : emitted'[k][1] # "onConnect"
       /\ nodes' = nodes /\ links' = links]_vars

\* the button was just pressed in connect mode: connect mode is off and no
\* source is pending
C3_Witness ==
  /\ Len(emitted) = 2 /\ emitted[1] = <<"setConnectionMode", FALSE>>
  /\ ~connectionMode /\ sourceNode = NoId

\* C4: only a click on a node with another id than the pending source makes
\* an onConnect call, and that call carries the pending source and the clicked
\* id; selecting a source, deselecting it and the Link Nodes button leave
\* nodes and links unchanged.
C4_OnlyConnectReachesStore ==
  [][/\ (\E k \in DOMAIN emitted' : emitted'[k][1] = "onConnect") =>
          /\ connectionMode /\ sourceNode # NoId
          /\ \E i \in DOMAIN nodes :
               /\ NodeClick(i) /\ nodes[i].id # sourceNode
               /\ emitted' = << <<"onConnect", sourceNode, nodes[i].id>> >>
     /\ (\/ LinkNodesButton
         \/ \E i \in DOMAIN nodes :
              /\ NodeClick(i) /\ connectionMode
              /\ sourceNode = NoId \/ nodes[i].id = sourceNode) =>
          nodes' = nodes /\ links' = links]_vars

\* a source was just selected by a click and is pending in connect mode
C4_Witness ==
  /\ Len(emitted) = 1 /\ emitted[1][1] = "setSourceNode" /\ emitted[1][2] # NoId
  /\ connectionMode /\ sourceNode = emitted[1][2]

\* C5: the release of a gesture in which the pointer moved runs no click
\* handler branch (no card opened, no source selected or deselected, no
\* onConnect call, links unchanged); the release of a gesture without
\* movement runs exactly one; and in no step of a gesture without movement
\* does the pressed node change position.
C5_DragXorClick ==
  [][gesture.active =>
       /\ ~gesture'.active =>
            IF gesture.moved
            THEN /\ emitted' = <<>>
                 /\ selectedNode' = selectedNode /\ sourceNode' = sourceNode
                 /\ connectionMode' = connectionMode /\ links' = links
            ELSE /\ Len(emitted') = 1
                 /\ emitted'[1][1] \in {"onNodeClick", "setSourceNode", "onConnect"}
       /\ ~gesture.moved /\ ~gesture'.moved =>
            nodes'[gesture.idx].x = nodes[gesture.idx].x]_vars

\* the pointer has moved in a gesture on a node whose click would complete
\* a connection
C5_Witness ==
  /\ gesture.active /\ gesture.moved
  /\ connectionMode /\ sourceNode # NoId
  /\ nodes[gesture.idx].id # sourceNode

NoDuplicateLinks == \A l \in BagToSet(links) : CopiesIn(l, links) = 1

C7_UniqueIds ==
  \A i, j \in DOMAIN nodes : i # j => nodes[i].id # nodes[j].id

\* C8: the data-update effect never throws, whatever ids the links carry.
C8_NoErrorState == ~crashed

\* the coordinate the drag handlers last wrote into their datum
DragCoord == IF gesture.live THEN nodes[gesture.idx].fx ELSE gesture.obj.fx

\* C9: after the pointer-up that ends a drag, no current record with the
\* dragged id is pinned.
C9_ReleaseUnpins ==
  [][gesture.active /\ ~gesture'.active =>
       \A j \in DOMAIN nodes' :
         nodes'[j].id = nodes[gesture.idx].id => nodes'[j].fx = NullCoord]_vars

\* C10: during a drag every tick leaves the current record of the dragged
\* node on the last coordinate the pointer supplied.
C10_DragPinHolds ==
  [][gesture.active /\ (\E dx \in Coord : tick(dx)) =>
       nodes'[gesture.idx].x = DragCoord]_vars

\* the data fields of a record, as opposed to the layout fields x, vx, fx
Attrs(n) == <<n.selectedForRoadmap, n.isDeepDived, n.content, n.image>>

\* a step that replaces records of persisting ids or appends a record
Swapped ==
  /\ Len(nodes') >= Len(nodes)
  /\ \A j \in DOMAIN nodes : nodes'[j].id = nodes[j].id
  /\ \/ Len(nodes') > Len(nodes)
     \/ \E j \in DOMAIN nodes : Attrs(nodes'[j]) # Attrs(nodes[j])

C12_LinksBindCurrent ==
  /\ \A l \in BagToSet(links) : Len(l) = 2 /\ Len(l[1]) = 3 /\ Len(l[2]) = 3
  /\ \A l \in displayLinks(links) :
       /\ FindId(nodes, l[1]) # 0
       /\ FindId(nodes, l[2]) # 0

\* a step in which the node collection or the link collection is a new one
CollectionChanged ==
  \/ Swapped
  \/ Len(nodes') < Len(nodes)
  \/ links' # links

\* C13: after every change of the node or the link collection the simulation
\* is running at alpha = 1, whatever it was doing before.
C13_ChangeReheats ==
  [][CollectionChanged => alpha' = AlphaOne /\ running']_vars

\* C14: while a drag is held the target temperature is not zero and the
\* simulation is ticking; when the last drag is released the target
\* temperature is zero (from where, with no further data change or drag, the
\* simulation cools down and stops).
C14_DragHeat ==
  [][/\ gesture'.active => alphaTarget' # 0 /\ running'
     /\ gesture.active /\ ~gesture'.active => alphaTarget' = 0]_vars

\* C15: in every reachable state the scale of the view transform lies in
\* [0.1, 4], whatever zoom and fit commands ran, for every layout and every
\* viewport size.
C15_ScaleInExtent == view.k \in ScaleMin .. ScaleMax

\* C16: no zoomIn yields a scale above 4 and no zoomOut a scale below 0.1,
\* however often they are repeated.
C16_ZoomButtonsBounded ==
  [][/\ handleZoomIn => view'.k <= ScaleMax
     /\ handleZoomOut => view'.k >= ScaleMin]_vars

\* zoomIn has been repeated until the extent stopped it
C16_Witness == view.k = ScaleMax /\ view.cx2 = 0 /\ view.cy2 = 0

\* the layout's bounding box has no width or no height
Degenerate(ys) ==
  \/ \A i, j \in DOMAIN nodes : nodes[i].x = nodes[j].x
  \/ \A i, j \in DOMAIN nodes : ys[i] = ys[j]

\* C17: fit-to-view with no node, with one node, or with a bounding box of
\* zero width or zero height leaves the view transform as it is.
C17_FitDegenerateNoOp ==
  [][view' # view =>
       \A ys \in [DOMAIN nodes -> Rows] : Degenerate(ys) => ~handleFitView(ys)]_vars

\* one node, and a transform that is not the initial one
C17_Witness ==
  Len(nodes) = 1 /\ view.k # ScaleOne /\ view.cx2 # 0

\* C18: for a bounding box with width and height, fit-to-view sets the scale
\* to the least of (viewport width - padding) / box width, (viewport height -
\* padding) / box height and 1.5, and the translation so that the midpoint of
\* the box is shown at the centre of the viewport.
C18_FitScaleAndCentre ==
  [][\A ys \in [DOMAIN nodes -> Rows] :
       handleFitView(ys) /\ ~Degenerate(ys) =>
         LET X  == {CoordPx * nodes[i].x : i \in DOMAIN nodes}
             Y  == {CoordPx * ys[i] : i \in DOMAIN nodes}
             bw == SetMax(X) - SetMin(X)
             bh == SetMax(Y) - SetMin(Y)
             fits(k) == /\ k * bw <= 100 * (viewport[1] - FitPadding)
                        /\ k * bh <= 100 * (viewport[2] - FitPadding)
                        /\ k <= FitMaxScale
         IN /\ fits(view'.k) /\ ~fits(view'.k + 1)
            /\ 2 * translateX(view', viewport) + (view'.k * (SetMin(X) + SetMax(X))) \div 100
                 \in {2 * (viewport[1] \div 2), 2 * (viewport[1] \div 2) + 1}
            /\ 2 * translateY(view', viewport) + (view'.k * (SetMin(Y) + SetMax(Y))) \div 100
                 \in {2 * (viewport[2] \div 2), 2 * (viewport[2] \div 2) + 1}]_vars

\* the view is the fit of two nodes that differ in x
C18_Witness ==
  /\ Len(nodes) = 2 /\ nodes[1].x # nodes[2].x
  /\ view.cx2 = CoordPx * (nodes[1].x + nodes[2].x)
  /\ view.k \in {FitMaxScale, NarrowSide - FitPadding}

\* C19 as stated: zoomIn multiplies the scale by 1.2 and zoomOut by 0.833,
\* each clamped to [0.1, 4].
C19_ZoomFactors ==
  [][/\ handleZoomIn => view'.k = Max(ScaleMin, Min(ScaleMax, (view.k * 1200) \div 1000))
     /\ handleZoomOut => view'.k = Max(ScaleMin, Min(ScaleMax, (view.k * 833) \div 1000))]_vars

\* k1 is the scale k times factor f (hundredths), clamped to [0.1, 4]
Scaled(k, f, k1) ==
  \/ k * f < 100 * ScaleMin /\ k1 = ScaleMin
  \/ k * f > 100 * ScaleMax /\ k1 = ScaleMax
  \/ /\ 100 * ScaleMin <= k * f /\ k * f <= 100 * ScaleMax
     /\ 100 * k1 <= k * f /\ k * f < 100 * (k1 + 1)

\* C19 amended: zoomIn multiplies the scale by 1.2 and zoomOut by 0.8, each
\* clamped to [0.1, 4]; the translation keeps the centre of the viewport on
\* the same point of the graph.
C19_ZoomFactorsAsCoded ==
  [][/\ handleZoomIn => Scaled(view.k, 120, view'.k)
     /\ handleZoomOut => Scaled(view.k, 80, view'.k)
     /\ handleZoomIn \/ handleZoomOut =>
          view'.cx2 = view.cx2 /\ view'.cy2 = view.cy2]_vars

\* one zoomOut from the initial scale
C19_Witness == view.k = 80 /\ view.cx2 = 0 /\ view.cy2 = 0

\* C20 as stated: every change of the node or link collection, the clearing
\* by a session reset included, leaves the scale and the translation of the
\* view as they were.
C20_DataLeavesView ==
  [][CollectionChanged \/ resetKey' # resetKey => view' = view]_vars

\* C20 amended: every change of the node or link collection other than a
\* session reset leaves the scale and the translation as they were; a session
\* reset puts the view back to the initial transform.
C20_DataLeavesViewButReset ==
  [][/\ CollectionChanged /\ resetKey' = resetKey => view' = view
     /\ resetKey' # resetKey => view' = initialTransform]_vars

\* a start is in flight under a view that was zoomed and moved
C20_Witness ==
  /\ flows # EmptyBag /\ Len(nodes) > 0
  /\ view.k # ScaleOne /\ view.cx2 # 0

\* The model call failed or gave nothing the agent call can use: a rejection,
\* no text (no image part for the image call), or text that is not JSON where
\* the agent call parses it.
Failed(pc, r) ==
  \/ r.err
  \/ pc = "generateConceptImage" /\ ~r.inline
  \/ pc # "generateConceptImage" /\ r.text = ""
  \/ pc \in {"getExpertBrainstorm", "generateTopicContent"} /\ r.text = "prose"

\* the placeholder values of the agent calls
Degraded(pc, p) ==
  CASE pc = "gatekeeperTranslate"    -> p.text = "Could not extract principle."
    [] pc = "getExpertBrainstorm"    -> p.text = "Analysis Failed" /\ p.topics = 1
    [] pc = "generateTopicContent"   -> FALSE
    [] pc = "generateConceptImage"   -> ~p.image
    [] pc = "synthesizeRoadmap"      -> p.text = "Could not synthesize roadmap."
    [] pc = "generateDeepConnection" ->
         p.text \in {"Error generating analysis.",
                     "Could not generate deep dive analysis."}

\* C21 as stated: every agent call whose model call failed or returned
\* unusable output has resolved to a degraded value, and none has rejected.
C21_AgentCallsNeverReject ==
  \A f \in BagToSet(flows) :
    Settled(f) /\ Failed(f.pc, f.res.answer) =>
      f.res.promise.state = "fulfilled" /\ Degraded(f.pc, f.res.promise)

\* C21, amended: on a failed model call or unusable output the brainstorm,
\* image and deep-connection calls resolve to their placeholder and never
\* reject; gatekeeperTranslate and synthesizeRoadmap resolve to placeholder
\* text on an empty answer and reject when the model call fails;
\* generateTopicContent rejects in every such case.
C21_AgentCallsAsCoded ==
  \A f \in BagToSet(flows) :
    Settled(f) /\ Failed(f.pc, f.res.answer) =>
      LET p == f.res.promise
          degraded == p.state = "fulfilled" /\ Degraded(f.pc, p)
      IN IF f.pc \in {"getExpertBrainstorm", "generateConceptImage",
                      "generateDeepConnection"}
         THEN degraded
         ELSE IF f.pc = "generateTopicContent"
         THEN p.state = "rejected"
         ELSE IF f.res.answer.err THEN p.state = "rejected" ELSE degraded

C21_Witness ==
  \E f \in BagToSet(flows) :
    /\ f.pc = "getExpertBrainstorm" /\ Settled(f) /\ f.res.answer.text = "prose"
    /\ f.res.promise.state = "fulfilled" /\ f.res.promise.topics = 1

\* the status line a flow's catch block sets
ErrorStatus(kind) ==
  CASE kind = "start"    -> Status("Error processing input.", 0)
    [] kind = "connect"  -> Status("Error during expert analysis.", 0)
    [] kind = "deepdive" -> Status("Deep dive failed.", 0)
    [] kind = "synth"    -> Status("Error during synthesis.", 0)

\* the flow ends in this step and leaves the collection as it was
EndsEmptyHanded(f) == nodes' = nodes /\ flows' = flows (-) One(f)

C23_BrainstormPlaceholder ==
  \A f \in BagToSet(flows) :
    f.pc = "getExpertBrainstorm" /\ Settled(f)
      /\ (f.res.answer.err \/ f.res.answer.text \in {"", "prose"})
    => f.res.promise = Fulfilled("Analysis Failed", 1, FALSE)

C23_Witness ==
  \E f \in BagToSet(flows) :
    /\ f.pc = "getExpertBrainstorm" /\ f.res.answer.err
    /\ f.res.promise.state = "fulfilled" /\ f.res.promise.topics = 1

\* C24: an image call whose model call rejected or returned no image part
\* has resolved to undefined, and the flow that resumes from it appends the
\* concept node of that topic, without an image, and the link from the
\* Gatekeeper node to it.
C24_NoImageStillNode ==
  [][\A f \in BagToSet(flows) :
       f.pc = "generateConceptImage" /\ Settled(f)
         /\ (f.res.answer.err \/ ~f.res.answer.inline)
       => /\ f.res.promise = Fulfilled("", NoTopics, FALSE)
          /\ ~BagIn(f, flows') =>
               /\ Len(nodes') = Len(nodes) + 1
               /\ SubSeq(nodes', 1, Len(nodes)) = nodes
               /\ LET n == nodes'[Len(nodes')]
                  IN /\ n.type = "CONCEPT" /\ ~n.image
                     /\ BagIn(<<f.gk, n.id>>, links')]_vars

C24_Witness ==
  \E i \in DOMAIN nodes :
    /\ nodes[i].type = "CONCEPT" /\ ~nodes[i].image
    /\ BagIn(<<gatekeeperId, nodes[i].id>>, links)

\* type of the first node with the given id
TypeOf(id) == nodes[FindId(nodes, id)].type

\* C25: a connect request onConnect(a, b) adds the link (a, b) and, exactly
\* when one of a, b is a Gatekeeper node and the other an Expert node, in
\* either order, starts one brainstorm flow for that Gatekeeper and Expert
\* and sets the processing flag; for any other pair the flows, the nodes
\* and the processing flag stay as they were.
C25_ConnectStartsBrainstorm ==
  [][\A a, b \in Ids(nodes) :
       emitted' = << <<"onConnect", a, b>> >> =>
         /\ links' = addLink(links, a, b)
         /\ nodes' = nodes
         /\ IF {TypeOf(a), TypeOf(b)} = {"GATEKEEPER", "EXPERT"}
            THEN \E f \in BagToSet(flows') :
                   /\ flows' = flows (+) One(f)
                   /\ f.kind = "connect" /\ f.pc = "getExpertBrainstorm"
                   /\ f.res = Pending
                   /\ {f.gk, nodes[f.exIdx].id} = {a, b}
                   /\ TypeOf(f.gk) = "GATEKEEPER"
                   /\ isProcessing'
            ELSE UNCHANGED <<flows, isProcessing>>]_vars

C25_Witness ==
  \E f \in BagToSet(flows) :
    /\ f.kind = "connect" /\ f.pc = "getExpertBrainstorm"
    /\ BagIn(<<nodes[f.exIdx].id, f.gk>>, links)
    /\ BagIn(<<userId, gatekeeperId>>, links)
    /\ emitted = << <<"onConnect", nodes[f.exIdx].id, f.gk>> >>

Concepts(ns) == {i \in DOMAIN ns : ns[i].type = "CONCEPT"}

\* C26: in a session with one brainstorm flow there are never more than 3
\* concept nodes, whatever the number of topics in the answer; a step adds
\* at most one node; every concept node has the link from the Gatekeeper
\* node to it; and no step, a failed one included, removes a node or a link.
C26_AtMostThreeConcepts ==
  [][/\ Cardinality(Concepts(nodes')) <= TopicLimit
     /\ Len(nodes') <= Len(nodes) + 1
     /\ SubSeq(nodes', 1, Len(nodes)) = nodes
     /\ \A l \in BagToSet(links) : BagIn(l, links')
     /\ \A i \in Concepts(nodes') :
          BagIn(<<gatekeeperId, nodes'[i].id>>, links')]_vars

\* the flow failed at its third topic: two concept nodes, each with its link
C26_Witness ==
  /\ statusMessage = ErrorStatus("connect") /\ flows = EmptyBag
  /\ Cardinality(Concepts(nodes)) = 2
  /\ \A i \in Concepts(nodes) : BagIn(<<gatekeeperId, nodes[i].id>>, links)

Range(s) == {s[i] : i \in DOMAIN s}

\* C27: (request) a press of the synthesis button without a Gatekeeper node
\* or without a selected node changes no node, link, flow or processing
\* flag, and a synthesis flow that starts holds the ids of the nodes selected
\* at that moment; (completion) the flow that resumes from a fulfilled
\* synthesizeRoadmap appends one Roadmap node and adds the links from the
\* ids the flow holds to it, the other links staying; when no earlier node
\* has the Roadmap node's id, the links into it are exactly those.
C27_RoadmapFromSelection ==
  [][/\ (FindType(nodes, "GATEKEEPER") = 0 \/ SelectedIds(nodes) = <<>>)
          /\ handleSynthesize
        => UNCHANGED <<nodes, links, flows, isProcessing>>
     /\ \A f \in BagToSet(flows') :
          f.kind = "synth" /\ ~BagIn(f, flows) /\ f.res = Pending
            => /\ Range(f.sel) = {nodes[i].id : i \in {j \in DOMAIN nodes :
                                                      nodes[j].selectedForRoadmap}}
               /\ f.sel # <<>> /\ hasGatekeeper /\ isProcessing'
     /\ \A f \in BagToSet(flows) :
          f.kind = "synth" /\ Settled(f) /\ Ok(f) /\ ~BagIn(f, flows')
            => /\ Len(nodes') = Len(nodes) + 1
               /\ SubSeq(nodes', 1, Len(nodes)) = nodes
               /\ LET r == nodes'[Len(nodes')]
                      from == {<<s, r.id>> : s \in Range(f.sel)}
                  IN /\ r.type = "ROADMAP"
                     /\ BagToSet(links') = BagToSet(links) \cup from
                     /\ r.id \notin Ids(nodes)
                          => {l \in BagToSet(links') : l[2] = r.id} = from]_vars

\* a Roadmap node linked from a concept node and not from the Gatekeeper
\* node, which is selected now
C27_Witness ==
  \E r \in DOMAIN nodes : \E c \in Concepts(nodes) : \E g \in DOMAIN nodes :
    /\ nodes[r].type = "ROADMAP" /\ nodes[g].type = "GATEKEEPER"
    /\ BagIn(<<nodes[c].id, nodes[r].id>>, links)
    /\ ~BagIn(<<nodes[g].id, nodes[r].id>>, links)
    /\ nodes[g].selectedForRoadmap

\* the elements made in the step
Created == Range(elements') \ Range(elements)

\* C28: after each reconciliation the node elements correspond one to one,
\* in order, to the nodes of the collection, each with the id of its node as
\* key; every element whose id is in the old and in the new collection is
\* still there (the same element); no element whose id was removed is left;
\* and the elements made are one for each new id and none for another id.
C28_ElementsFollowIds ==
  [][/\ Len(elements') = Len(nodes')
     /\ \A i \in DOMAIN nodes' : elements'[i].key = nodes'[i].id
     /\ \A e \in Range(elements) :
          IF e.key \in Ids(nodes) /\ e.key \in Ids(nodes')
          THEN e \in Range(elements')
          ELSE e.key \notin Ids(nodes') => e \notin Range(elements')
     /\ \A k \in Ids(nodes') \ Ids(nodes) :
          Cardinality({e \in Created : e.key = k}) = 1
     /\ \A e \in Created : e.key \notin Ids(nodes)]_vars

\* C29: with A put at (0,0) and then B at (50,50) with the link (A,B), no
\* position becomes NaN, and after 100 ticks the distance between A and B is
\* within 10 px of the link distance 180.
C29_TwoNodesSettle ==
  layout.n = 2 /\ layout.b0 = <<50, 50>> =>
    /\ ~layout.nan
    /\ layout.ticks >= 100 =>
         /\ Distance(layout) >= (LinkDistance - 10) * PxScale
         /\ Distance(layout) <= (LinkDistance + 10) * PxScale

\* the hundredth tick after B was put at (50,50) has run
C29_Witness ==
  layout.n = 2 /\ layout.b0 = <<50, 50>> /\ layout.ticks = 100

\* C30: whenever an agent flow is in flight, isProcessing is true.
C30_FlagCoversFlows == flows # EmptyBag => isProcessing

\* ------------------------------------------------------------------- C31
\* the flows that take a step: each step of a flow removes the flow's record
\* from the bag (and puts the record of its next await, if any, in its place)
Resumed == {f \in BagToSet(flows) : CopiesIn(f, flows') < CopiesIn(f, flows)}

\* C31: after a session reset, a flow that was started before the reset adds
\* no node and no link: a step of a flow whose canvas key is older than the
\* current one leaves the node collection and the link collection as they
\* were.
C31_ResetCancelsFlows ==
  [][(resetKey' = resetKey /\ \E f \in Resumed : f.key < resetKey)
       => (Len(nodes') = Len(nodes) /\ links' = links)]_vars

\* ------------------------------------------------------------------- C32
\* C32: for every concept node at most one deep-dive analysis is ever
\* appended to its content, and no second deep dive of the node is in flight
\* or applied once one has been requested: the analyses appended to a concept
\* node and the deep dives in flight for it are at most one together.
C32_OneDeepDive ==
  \A i \in DOMAIN nodes :
    nodes[i].type = "CONCEPT" => nodes[i].content + DivesInFlight(nodes[i].id) <= 1

\* ------------------------------------------------------------------- C33
\* the step is the completion of a deep dive
DiveCompletes == resetKey' = resetKey /\ \E f \in Resumed : f.kind = "deepdive"

\* C33: the completion of a deep dive does not change which node the node
\* card shows: a closed card stays closed and an open card keeps the id of
\* its node, whatever the user chose while the deep dive was in flight.
C33_DiveKeepsSelection ==
  [][DiveCompletes =>
       /\ selectedNode'.open = selectedNode.open
       /\ selectedNode.open => selectedNode'.id = selectedNode.id]_vars

\* ------------------------------------------------------------------- C34
\* C34: whenever the node card is open, its copy of the node has the content,
\* the selectedForRoadmap flag and the isDeepDived flag of the record with
\* the same id in the node collection.
C34_CardMatchesRecord ==
  selectedNode.open =>
    \A i \in DOMAIN nodes :
      nodes[i].id = selectedNode.id =>
        /\ selectedNode.content = nodes[i].content
        /\ selectedNode.selectedForRoadmap = nodes[i].selectedForRoadmap
        /\ selectedNode.isDeepDived = nodes[i].isDeepDived

\* the card is open on a concept that was selected for the roadmap and deep
\* dived while the card showed it
C34_Witness ==
  /\ selectedNode.open /\ selectedNode.type = "CONCEPT"
  /\ selectedNode.isDeepDived /\ selectedNode.selectedForRoadmap
  /\ selectedNode.content = 1
  /\ \E i \in DOMAIN nodes : nodes[i].id = selectedNode.id /\ nodes[i].isDeepDived

\* ------------------------------------------------------------------- C35
\* C35: in every reachable state a pending connection source implies that
\* connect mode is on and that the pending source is the id of a node of the
\* current collection.
C35_PendingSourceValid ==
  sourceNode # NoId => connectionMode /\ sourceNode \in Ids(nodes)

\* a source is pending in the session after a reset, in the connect mode that
\* handleAddExpert turned on
C35_Witness ==
  /\ resetKey > 0 /\ sourceNode # NoId /\ connectionMode
  /\ statusMessage = Status("spawned. Link to Gatekeeper to brainstorm.", 0)

\* ------------------------------------------------------------------- C36
\* C36: in every reachable state no link of the link collection has its
\* source id equal to its target id.
C36_NoSelfLink ==
  \A l \in BagToSet(links) : l[1] # l[2]

\* links of every call site are in the collection: the start flow's, one made
\* by the connect gesture, a concept's and a roadmap's
C36_Witness ==
  /\ BagIn(<<userId, gatekeeperId>>, links)
  /\ \E l \in BagToSet(links) : {l[1][1], l[2][1]} = {"gatekeeper-1", "expert"}
  /\ \E l \in BagToSet(links) : l[2][1] = "concept"
  /\ \E l \in BagToSet(links) : l[2][1] = "roadmap"

\* ------------------------------------------------------------------- C37
\* the step is a node click that reached a branch of the click handler: the
\* handler made one call, whose name and id argument are in emitted'
Clicked == Len(emitted') = 1

\* C37: a node click has exactly one of two effects.  With connect mode on it
\* advances the connect gesture (sets or clears the pending source, or makes
\* the connect request) and leaves the node card as it is; with connect mode
\* off it opens the node card on the clicked node and leaves the pending
\* source, connect mode, the links and the flows as they are.
C37_ClickByMode ==
  [][Clicked =>
       IF connectionMode
       THEN /\ emitted'[1][1] \in {"setSourceNode", "onConnect"}
            /\ selectedNode' = selectedNode
       ELSE /\ emitted'[1][1] = "onNodeClick"
            /\ selectedNode'.open /\ selectedNode'.id = emitted'[1][2]
            /\ sourceNode' = sourceNode /\ connectionMode' = connectionMode
            /\ links' = links /\ flows' = flows]_vars

\* a click with connect mode off opened the card, and a later click in
\* connect mode made a connect request with the card still open
C37_Witness ==
  /\ Len(emitted) = 1 /\ emitted[1][1] = "onConnect"
  /\ selectedNode.open /\ ~connectionMode

\* ------------------------------------------------------------------- C38
\* the step starts no flow
NoStart == BagCardinality(flows') <= BagCardinality(flows)

\* no flow is in flight and the processing flag, which is state of the
\* mounted App, is false
Idle == flows = EmptyBag /\ (crashed \/ ~isProcessing)

\* C38: provided every awaited agent call settles, every started flow
\* finishes, and once no flow is in flight the processing flag is false,
\* whatever the outcomes of the flows and whether or not the session was
\* reset meanwhile: whenever no flow is in flight the flag of the mounted App
\* is false, and in every behaviour in which the user stops starting flows
\* the session comes to have no flow in flight for good.
C38_FlowsFinish ==
  /\ [](flows = EmptyBag => Idle)
  /\ <>[][NoStart]_vars => <>[]Idle

\* a deep dive requested before a reset has finished after it, and nothing is
\* in flight
C38_Witness ==
  /\ resetKey > 0 /\ nodes = <<>> /\ flows = EmptyBag /\ ~isProcessing
  /\ statusMessage = Status("Deep analysis complete.", 0)

====
